---- MODULE Spec2Model ----
(***************************************************************************)
(* claude-manager: scenario-aware tmux session / window / pane             *)
(* orchestration (src/claude_manager.py, src/modules/tmux_manager.py,      *)
(* src/modules/scenario_detector.py).                                      *)
(*                                                                         *)
(* Window names, command output and patterns are sequences of one-char     *)
(* strings, so that formatting (f-strings), parsing (strip / split) and    *)
(* the regular expressions are computed rather than assumed.               *)
(***************************************************************************)
EXTENDS Integers, Sequences, FiniteSets, TLC

(***************************************************************************)
(* Bounds of the model                                                     *)
(***************************************************************************)
MaxIds == 5          \* windows ever created in one behaviour
MaxRuns == 2         \* invocations of the program in one behaviour
MaxFaults == 1       \* tmux commands that fail for a reason outside the session's state
MaxPanes == 3        \* panes a window holds before split-window reports no space
MaxKeyLen == 2       \* length of the project keys drawn for the name functions
MaxListed == 3       \* length of the window lists drawn for the name functions

(***************************************************************************)
(* Characters and strings                                                  *)
(***************************************************************************)
None == <<>>

NL == "\n"

Lower == {"a","b","c","d","e","f","g","h","i","j","k","l","m",
          "n","o","p","q","r","s","t","u","v","w","x","y","z"}

Upper == {"A","B","C","D","E","F","G","H","I","J","K","L","M",
          "N","O","P","Q","R","S","T","U","V","W","X","Y","Z"}

DigitChars == {"0","1","2","3","4","5","6","7","8","9"}

\* (a character class that lets the dash into the key)
KeyChars_WithDash == Lower \cup Upper \cup DigitChars \cup {"_", "-"}

\* the character class [a-zA-Z0-9_]
KeyChars == Lower \cup Upper \cup DigitChars \cup {"_"}

\* what str.strip() removes from both ends
Whitespace == {" ", NL, "\t"}

DigitOf(d) == CASE d = 0 -> "0" [] d = 1 -> "1" [] d = 2 -> "2" [] d = 3 -> "3"
                [] d = 4 -> "4" [] d = 5 -> "5" [] d = 6 -> "6" [] d = 7 -> "7"
                [] d = 8 -> "8" [] OTHER -> "9"

\* str(n) for n >= 0, as the f-string formats the counter
RECURSIVE Str(_)
Str(n) == IF n < 10 THEN <<DigitOf(n)>> ELSE Str(n \div 10) \o <<DigitOf(n % 10)>>

StartsWith(s, p) == Len(s) >= Len(p) /\ SubSeq(s, 1, Len(p)) = p

Drop(s, n) == SubSeq(s, n + 1, Len(s))

\* str.strip()
RECURSIVE LStrip(_)
LStrip(s) == IF s # <<>> /\ Head(s) \in Whitespace THEN LStrip(Tail(s)) ELSE s

RECURSIVE RStrip(_)
RStrip(s) == IF s # <<>> /\ s[Len(s)] \in Whitespace
             THEN RStrip(SubSeq(s, 1, Len(s) - 1)) ELSE s

Strip(s) == RStrip(LStrip(s))

\* str.split('\n'): the sequence of the fields between the newlines
RECURSIVE SplitLines(_)
SplitLines(s) ==
    IF \E i \in 1..Len(s) : s[i] = NL
    THEN LET i == CHOOSE j \in 1..Len(s) : s[j] = NL /\ \A h \in 1..(j - 1) : s[h] # NL
         IN  <<SubSeq(s, 1, i - 1)>> \o SplitLines(Drop(s, i))
    ELSE <<s>>

\* the output of `tmux list-windows -F '#{window_name}'`: one line per window
RECURSIVE ListOutput(_)
ListOutput(names) ==
    IF names = <<>> THEN <<>> ELSE Head(names) \o <<NL>> \o ListOutput(Tail(names))

Range(f) == {f[i] : i \in DOMAIN f}

(***************************************************************************)
(* Reserved names                                                          *)
(***************************************************************************)
SessionName == "mngr"

PREFIX == <<"c","c","-","m","n","g","r","-">>

CCUSAGE == <<"c","c","u","s","a","g","e">>

MNGRLOG == <<"m","n","g","r","-","l","o","g">>

\* the name tmux gives the window that new-session creates without -n
PLACEHOLDER == <<"b","a","s","h">>

\* f"cc-mngr-{project_key}"
BaseName(project_key) == PREFIX \o project_key

\* (the counter joined with an underscore)
Suffixed_Underscore(base_name, counter) == base_name \o <<"_">> \o Str(counter)

\* f"{base_name}-{counter}"
Suffixed(base_name, counter) == base_name \o <<"-">> \o Str(counter)

(***************************************************************************)
(* ScenarioDetector: the reserved pattern                                  *)
(***************************************************************************)
AllIn(s, chars) == \A i \in 1..Len(s) : s[i] \in chars

\* (-\d+)? : nothing, or a dash and at least one digit
IsCounterSuffix(s) ==
    \/ s = <<>>
    \/ Len(s) >= 2 /\ s[1] = "-" /\ AllIn(Tail(s), DigitChars)

\* the lengths of group 1 for which cc-mngr-([a-zA-Z0-9_]+)(-\d+)? matches all of t
KeySplits(t) ==
    IF StartsWith(t, PREFIX)
    THEN LET r == Drop(t, Len(PREFIX))
         IN  {n \in 1..Len(r) : AllIn(SubSeq(r, 1, n), KeyChars) /\ IsCounterSuffix(Drop(r, n))}
    ELSE {}

\* the texts a pattern closed by $ may cover: the whole string, or the string
\* without the newline that ends it
DollarTexts(s) ==
    {s} \cup (IF s # <<>> /\ s[Len(s)] = NL THEN {SubSeq(s, 1, Len(s) - 1)} ELSE {})

PatternMatches(s) == \E t \in DollarTexts(s) : KeySplits(t) # {}

is_claude_manager_window(window_name) ==
    IF window_name = None THEN FALSE ELSE PatternMatches(window_name)

\* group(1) of the match: the quantifier is greedy, the longest key wins
MatchGroup1(s) ==
    LET t == CHOOSE u \in DollarTexts(s) : KeySplits(u) # {}
        n == CHOOSE m \in KeySplits(t) : \A h \in KeySplits(t) : h <= m
    IN  SubSeq(Drop(t, Len(PREFIX)), 1, n)

extract_project_from_window(window_name) ==
    IF window_name = None \/ ~is_claude_manager_window(window_name) THEN None
    ELSE IF PatternMatches(window_name) THEN MatchGroup1(window_name)
    ELSE None

(***************************************************************************)
(* TmuxManager.get_unique_window_name                                      *)
(***************************************************************************)
\* set(result.stdout.strip().split('\n'))
ExistingNames(stdout) == Range(SplitLines(Strip(stdout)))

RECURSIVE NextCounter(_, _, _)
NextCounter(base_name, existing_names, counter) ==
    IF Suffixed(base_name, counter) \in existing_names
    THEN NextCounter(base_name, existing_names, counter + 1)
    ELSE counter

\* returncode is the exit code of list-windows, stdout its output
get_unique_window_name(project_key, returncode, stdout) ==
    LET base_name == BaseName(project_key)
        existing_names == ExistingNames(stdout)
    IN  IF returncode # 0 THEN base_name
        ELSE IF base_name \notin existing_names THEN base_name
        ELSE Suffixed(base_name, NextCounter(base_name, existing_names, 1))

(***************************************************************************)
(* ScenarioDetector.detect_scenario                                        *)
(***************************************************************************)
\* (the two outside labels taken for each other)
detect_scenario_Swapped(inside_tmux, session_exists) ==
    IF ~inside_tmux
    THEN IF session_exists THEN "outside_tmux_no_session" ELSE "outside_tmux_has_session"
    ELSE "inside_tmux"

detect_scenario(inside_tmux, session_exists) ==
    IF ~inside_tmux
    THEN IF session_exists THEN "outside_tmux_has_session" ELSE "outside_tmux_no_session"
    ELSE "inside_tmux"

(***************************************************************************)
(* State                                                                   *)
(***************************************************************************)
VARIABLES
    sessionExists,  \* tmux: the session named SessionName exists
    windows,        \* tmux: window index -> [id, name, panes] of that session
    cur,            \* tmux: index of the session's current window (-1: none)
    nextId,         \* tmux: id of the next window created
    renumber,       \* tmux: the renumber-windows option of the server
    pc,             \* the orchestrator's position
    inside,         \* TMUX_PANE is set for this run
    scenario,       \* label returned by detect_scenario for this run
    preset,         \* main: the key given with --project (None: none given)
    select_calls,   \* calls of select_project in this run
    project_key,    \* handle_scenario_N: the selected key
    validated,      \* handle_scenario_N: what validate_project returned ("": not called)
    window_name,    \* name requested for the project window
    target_index,   \* _create_window_safe: the index chosen
    verified_name,  \* _create_window_safe: name read back from the live window
    cws_target,     \* _create_window_safe: the target it builds before creating
    window_target,  \* create_project_window / setup_current_window_as_project: their target
    project_target, \* handle_scenario_1/2: what create_project_window returned
    s3_target,      \* handle_scenario_3: what setup_current_window_as_project returned
    cand,           \* rightmost move: position in the candidate list
    moved,          \* rightmost move: the target it moved the window to (None: not moved)
    attempt,        \* _verify_window_ready: the attempt number
    slept,          \* _verify_window_ready: its waits, [after: commands issued before, tenths: length]
    ready,          \* _verify_window_ready: what it returned ("": not yet)
    pane_indices,   \* clear_current_window: the panes listed, still to visit
    projectId,      \* id of the window this run made its project window (0: none)
    tgtAge,         \* number of commands issued when window_target was obtained
    log,            \* the tmux commands issued in this run, in order
    foreign,        \* commands other tmux clients issued during this run
    faults,         \* tmux commands that failed for an outside reason so far
    runs,           \* invocations started so far
    peer,           \* the locals of a second instance while this one is scheduled (None: no second instance)
    twin,           \* a second, separate world run side by side with this one (None: none)
    args,           \* arguments of a call of the name functions
    ret             \* its results

tmuxVars == <<sessionExists, windows, cur, nextId, renumber>>

runVars == <<pc, inside, scenario, preset, select_calls, project_key, validated, window_name, target_index,
             verified_name, cws_target, window_target, project_target, s3_target,
             cand, moved, attempt, slept, ready, pane_indices, projectId, tgtAge, log, foreign,
             faults, runs, peer, twin>>

fnVars == <<args, ret>>

vars == <<tmuxVars, runVars, fnVars>>

(***************************************************************************)
(* Program constants                                                       *)
(***************************************************************************)
\* (the candidates taken from the highest down)
Candidates_Descending == <<1003, 1002, 1001, 1000, 999>>

\* the candidate indices of the rightmost move
Candidates == <<999, 1000, 1001, 1002, 1003>>

\* start_index of _find_next_available_index as _create_window_safe calls it
ParkingStart == 1001

\* max_retries of _verify_window_ready
MaxRetries == 5

Keys == {<<"a">>, <<"b">>}

\* the keys are interchangeable, so the first invocation takes the first one
FirstKey == <<"a">>

\* a key that is not in projects.yaml
UnknownKey == <<"z">>

(***************************************************************************)
(* tmux: error texts                                                       *)
(***************************************************************************)
IndexInUseMsg(i) == <<"index in use", ": ">> \o Str(i)

SameIndexMsg(i) == <<"same index", ": ">> \o Str(i)

CantFindMsg == <<"can't find window">>

ServerMsg == <<"server exited unexpectedly">>

\* (every failure taken for a collision)
MentionsAnyError(stderr) == stderr # <<>>

\* "index in use" in e.stderr
MentionsIndexInUse(stderr) == \E i \in 1..Len(stderr) : stderr[i] = "index in use"

(***************************************************************************)
(* tmux: windows of the session                                            *)
(***************************************************************************)
Indices == DOMAIN windows

Target(idx) == <<SessionName, idx>>

IndexOf(target) == target[2]

NewWindow(name) == [id |-> nextId, name |-> name, panes |-> 1]

\* the window map with a window put at a free index
WithWindow(w, idx, win) == [i \in (DOMAIN w) \cup {idx} |-> IF i = idx THEN win ELSE w[i]]

Without(w, idx) == [i \in (DOMAIN w) \ {idx} |-> w[i]]

\* new-window -a: the first free index above idx
RECURSIVE FirstFree(_, _)
FirstFree(w, idx) == IF idx \in DOMAIN w THEN FirstFree(w, idx + 1) ELSE idx

\* new-window -a: windows from idx up to the first free index move up by one
ShuffleUp(w, idx) ==
    LET free == FirstFree(w, idx)
    IN  [i \in ((DOMAIN w) \ {idx}) \cup (IF free = idx THEN {} ELSE {free}) |->
            IF i > idx /\ i <= free THEN w[i - 1] ELSE w[i]]

\* renumber-windows: the windows keep their order and take 0, 1, 2, ...
Rank(w, idx) == Cardinality({j \in DOMAIN w : j < idx})

Renumbered(w) ==
    [r \in 0..(Cardinality(DOMAIN w) - 1) |-> w[CHOOSE i \in DOMAIN w : Rank(w, i) = r]]

\* the window selected when the window at idx goes away: the previous one,
\* wrapping to the last
Neighbour(w, idx) ==
    LET rest == (DOMAIN w) \ {idx}
        below == {j \in rest : j < idx}
    IN  IF rest = {} THEN -1
        ELSE IF below # {} THEN CHOOSE j \in below : \A h \in below : h <= j
        ELSE CHOOSE j \in rest : \A h \in rest : h <= j

IdAt(idx) == IF idx \in Indices THEN windows[idx].id ELSE 0

IndexOfId(id) == IF \E i \in Indices : windows[i].id = id
                 THEN CHOOSE i \in Indices : windows[i].id = id ELSE -1

(***************************************************************************)
(* The command log                                                         *)
(***************************************************************************)
\* cmd: the tmux command; tgt: the window index it names (-1: none, the
\* session or the current window); pane: the pane it names (-1: none);
\* keys: what send-keys types, the format display-message prints; rc: its exit code; age: the number of commands
\* issued before the target value was obtained; wid: the id of the window the
\* command acted on (0: none); err: its error text; via: the call that ran it,
\* subprocess.run at the call site or the gateway; log_success: the flag the
\* gateway was called with; logged: log_tmux_command was called for it
EntryErr(cmd, tgt, pane, keys, err, age, wid) ==
    [cmd |-> cmd, tgt |-> tgt, pane |-> pane, keys |-> keys,
     rc |-> IF err = <<>> THEN 0 ELSE 1, age |-> age, wid |-> wid, err |-> err,
     via |-> "subprocess", log_success |-> FALSE, logged |-> FALSE]

Entry(cmd, tgt, pane, keys, rc, age, wid) ==
    [cmd |-> cmd, tgt |-> tgt, pane |-> pane, keys |-> keys,
     rc |-> rc, age |-> age, wid |-> wid, err |-> IF rc = 0 THEN <<>> ELSE <<"error">>,
     via |-> "subprocess", log_success |-> FALSE, logged |-> FALSE]

Fresh == Len(log)

\* the outcomes a command can have for reasons outside the session's state
Oks == IF faults < MaxFaults THEN BOOLEAN ELSE {TRUE}

Issued(entry, ok) ==
    /\ log' = Append(log, entry)
    /\ faults' = IF ok THEN faults ELSE faults + 1

Rc(ok) == IF ok THEN 0 ELSE 1

\* (a failed command logged only when log_success is set)
_run_tmux_command_Quiet(entry, log_success) ==
    [entry EXCEPT !.via = "gateway", !.log_success = log_success, !.logged = log_success]

\* the gateway: the command runs once; log_tmux_command is called when
\* log_success is set or the exit code is not 0
_run_tmux_command(entry, log_success) ==
    [entry EXCEPT !.via = "gateway", !.log_success = log_success,
                  !.logged = log_success \/ entry.rc # 0]

(***************************************************************************)
(* Initial state: the tmux server holds no session of that name, or a      *)
(* session the user made, with its one shell window                        *)
(***************************************************************************)
NoLocals ==
    /\ pc = "idle" /\ inside = FALSE /\ scenario = "" /\ project_key = None
    /\ preset = None /\ select_calls = 0
    /\ window_name = None /\ target_index = -1 /\ verified_name = None
    /\ cws_target = None /\ window_target = None /\ project_target = None
    /\ s3_target = None /\ cand = 0 /\ moved = None /\ attempt = 0 /\ slept = <<>> /\ ready = "" /\ validated = ""
    /\ pane_indices = <<>> /\ projectId = 0 /\ tgtAge = 0 /\ log = <<>>
    /\ foreign = 0

Init ==
    /\ sessionExists \in BOOLEAN
    /\ windows = IF sessionExists THEN WithWindow(<<>>, 0, [id |-> 1, name |-> PLACEHOLDER, panes |-> 1])
                 ELSE <<>>
    /\ cur = IF sessionExists THEN 0 ELSE -1
    /\ nextId = IF sessionExists THEN 2 ELSE 1
    /\ renumber \in BOOLEAN
    /\ NoLocals
    /\ faults = 0 /\ runs = 0 /\ peer = None /\ twin = None
    /\ args = None /\ ret = None

(***************************************************************************)
(* ClaudeManager.run: detection and routing                                *)
(***************************************************************************)
\* detect_scenario probes has-session only when TMUX_PANE is not set; a caller
\* inside tmux sits in a window of the session, the one the user has selected
Detect ==
    /\ pc = "idle"
    /\ runs < MaxRuns
    /\ runs' = runs + 1
    /\ \E ins \in BOOLEAN, ok \in Oks, c \in Indices \cup {-1} :
          /\ ins => (sessionExists /\ c \in Indices /\ ok)
          /\ ~ins => c = cur
          /\ inside' = ins
          /\ cur' = c
          /\ scenario' = detect_scenario(ins, sessionExists /\ ok)
          /\ faults' = IF ok THEN faults ELSE faults + 1
          /\ log' = IF ins THEN <<>>
                    ELSE <<_run_tmux_command(Entry("has-session", -1, -1, <<>>, Rc(sessionExists /\ ok), 0, 0), FALSE)>>
    /\ pc' = "select"
    /\ UNCHANGED <<sessionExists, windows, nextId, renumber, preset, select_calls,
                   project_key, validated, window_name, target_index,
                   verified_name, cws_target, window_target, project_target,
                   s3_target, cand, moved, attempt, slept, ready,
                   pane_indices, projectId, tgtAge, foreign, peer, twin,
                   args, ret>>

\* main with --project <key>: the key is looked up and validated, then the
\* scenario is detected and its procedure called with the key
MainPreset ==
    /\ pc = "idle"
    /\ runs < MaxRuns
    /\ runs' = runs + 1
    /\ \E k \in (IF runs = 0 THEN {FirstKey} ELSE Keys), known \in BOOLEAN, valid \in BOOLEAN :
          /\ preset' = IF known THEN k ELSE UnknownKey
          /\ validated' = IF ~known THEN "" ELSE IF valid THEN "True" ELSE "False"
          /\ IF known /\ valid
             THEN \E ins \in BOOLEAN, ok \in Oks, c \in Indices \cup {-1} :
                      /\ ins => (sessionExists /\ c \in Indices /\ ok)
                      /\ ~ins => c = cur
                      /\ inside' = ins
                      /\ cur' = c
                      /\ scenario' = detect_scenario(ins, sessionExists /\ ok)
                      /\ faults' = IF ok THEN faults ELSE faults + 1
                      /\ log' = IF ins THEN <<>>
                                ELSE <<_run_tmux_command(Entry("has-session", -1, -1, <<>>, Rc(sessionExists /\ ok), 0, 0), FALSE)>>
                      /\ pc' = "select"
             ELSE /\ pc' = "done"
                  /\ log' = <<>>
                  /\ UNCHANGED <<inside, cur, scenario, faults>>
    /\ UNCHANGED <<sessionExists, windows, nextId, renumber, select_calls,
                   project_key, window_name, target_index, verified_name,
                   cws_target, window_target, project_target, s3_target,
                   cand, moved, attempt, slept, ready, pane_indices,
                   projectId, tgtAge, foreign, peer, twin, args, ret>>

\* the preset key when one was given, else what select_project can return: a
\* configured key or nothing. validate_project reads the configuration only, so
\* a preset key that main validated is valid again
Selectable ==
    IF preset # None THEN {preset}
    ELSE (IF runs = 1 THEN {FirstKey} ELSE Keys) \cup {None}

\* (select_project called although a key was given)
SelectProject_AlwaysAsks ==
    /\ pc = "select"
    /\ \E k \in Selectable, valid \in BOOLEAN :
          /\ (k = None \/ preset # None) => valid
          /\ project_key' = k
          /\ select_calls' = select_calls + 1
          /\ validated' = IF k = None THEN "" ELSE IF valid THEN "True" ELSE "False"
          /\ pc' = IF k = None \/ ~valid THEN "done"
                   ELSE IF scenario = "outside_tmux_no_session" THEN "s1_new_session"
                   ELSE IF scenario = "outside_tmux_has_session" THEN "cpw_has_session"
                   ELSE "clr_list_panes"
    /\ UNCHANGED <<sessionExists, windows, cur, nextId, renumber, inside, scenario,
                   preset, window_name, target_index, verified_name,
                   cws_target, window_target, project_target, s3_target,
                   cand, moved, attempt, slept, ready, pane_indices,
                   projectId, tgtAge, log, foreign, faults, runs, peer, twin,
                   args, ret>>

\* (the result of validate_project not read)
SelectProject_Unvalidated ==
    /\ pc = "select"
    /\ \E k \in Selectable, valid \in BOOLEAN :
          /\ (k = None \/ preset # None) => valid
          /\ project_key' = k
          /\ select_calls' = IF preset = None THEN select_calls + 1 ELSE select_calls
          /\ validated' = IF k = None THEN "" ELSE IF valid THEN "True" ELSE "False"
          /\ pc' = IF k = None THEN "done"
                   ELSE IF scenario = "outside_tmux_no_session" THEN "s1_new_session"
                   ELSE IF scenario = "outside_tmux_has_session" THEN "cpw_has_session"
                   ELSE "clr_list_panes"
    /\ UNCHANGED <<sessionExists, windows, cur, nextId, renumber, inside, scenario,
                   preset, window_name, target_index, verified_name,
                   cws_target, window_target, project_target, s3_target,
                   cand, moved, attempt, slept, ready, pane_indices,
                   projectId, tgtAge, log, foreign, faults, runs, peer, twin,
                   args, ret>>

\* select_project / the preset key, then validate_project
SelectProject ==
    /\ pc = "select"
    /\ \E k \in Selectable, valid \in BOOLEAN :
          /\ (k = None \/ preset # None) => valid
          /\ project_key' = k
          /\ select_calls' = IF preset = None THEN select_calls + 1 ELSE select_calls
          /\ validated' = IF k = None THEN "" ELSE IF valid THEN "True" ELSE "False"
          /\ pc' = IF k = None \/ ~valid THEN "done"
                   ELSE IF scenario = "outside_tmux_no_session" THEN "s1_new_session"
                   ELSE IF scenario = "outside_tmux_has_session" THEN "cpw_has_session"
                   ELSE "clr_list_panes"
    /\ UNCHANGED <<sessionExists, windows, cur, nextId, renumber, inside, scenario,
                   preset, window_name, target_index, verified_name,
                   cws_target, window_target, project_target, s3_target,
                   cand, moved, attempt, slept, ready, pane_indices,
                   projectId, tgtAge, log, foreign, faults, runs, peer, twin,
                   args, ret>>

(***************************************************************************)
(* handle_scenario_1: session and auxiliary windows                        *)
(***************************************************************************)
\* (the exit code of new-session not read)
NewSession_Unread ==
    /\ pc = "s1_new_session"
    /\ \E ok \in Oks :
          LET done == ok /\ ~sessionExists /\ nextId <= MaxIds
          IN  /\ Issued(Entry("new-session", -1, -1, <<>>, Rc(done), Fresh, IF done THEN nextId ELSE 0), ok)
              /\ IF done
                 THEN /\ sessionExists' = TRUE
                      /\ windows' = WithWindow(<<>>, 0, NewWindow(PLACEHOLDER))
                      /\ cur' = 0
                      /\ nextId' = nextId + 1
                      /\ pc' = "ccu_has_session"
                 ELSE /\ pc' = "ccu_has_session"
                      /\ UNCHANGED <<sessionExists, windows, cur, nextId>>
    /\ UNCHANGED <<renumber, inside, scenario, preset, select_calls, project_key,
                   validated, window_name, target_index, verified_name,
                   cws_target, window_target, project_target, s3_target,
                   cand, moved, attempt, slept, ready, pane_indices,
                   projectId, tgtAge, foreign, runs, peer, twin, args, ret>>

\* tmux new-session -d -s <session>: fails when the session exists
NewSession ==
    /\ pc = "s1_new_session"
    /\ \E ok \in Oks :
          LET done == ok /\ ~sessionExists /\ nextId <= MaxIds
          IN  /\ Issued(Entry("new-session", -1, -1, <<>>, Rc(done), Fresh, IF done THEN nextId ELSE 0), ok)
              /\ IF done
                 THEN /\ sessionExists' = TRUE
                      /\ windows' = WithWindow(<<>>, 0, NewWindow(PLACEHOLDER))
                      /\ cur' = 0
                      /\ nextId' = nextId + 1
                      /\ pc' = "ccu_has_session"
                 ELSE /\ pc' = "done"
                      /\ UNCHANGED <<sessionExists, windows, cur, nextId>>
    /\ UNCHANGED <<renumber, inside, scenario, preset, select_calls, project_key,
                   validated, window_name, target_index, verified_name,
                   cws_target, window_target, project_target, s3_target,
                   cand, moved, attempt, slept, ready, pane_indices,
                   projectId, tgtAge, foreign, runs, peer, twin, args, ret>>

\* (the answer of the probe not read)
HasSession_Ignored(at, present, absent) ==
    /\ pc = at
    /\ \E ok \in Oks :
          /\ Issued(_run_tmux_command(Entry("has-session", -1, -1, <<>>, Rc(sessionExists /\ ok), Fresh, 0), FALSE), ok)
          /\ pc' = present
    /\ UNCHANGED <<sessionExists, windows, cur, nextId, renumber, inside, scenario,
                   preset, select_calls, project_key, validated, window_name,
                   target_index, verified_name, cws_target, window_target,
                   project_target, s3_target, cand, moved, attempt, slept,
                   ready, pane_indices, projectId, tgtAge, foreign, runs,
                   peer, twin, args, ret>>

\* session_exists() / the has-session check that opens a creation procedure
HasSession(at, present, absent) ==
    /\ pc = at
    /\ \E ok \in Oks :
          /\ Issued(_run_tmux_command(Entry("has-session", -1, -1, <<>>, Rc(sessionExists /\ ok), Fresh, 0), FALSE), ok)
          /\ pc' = IF sessionExists /\ ok THEN present ELSE absent
    /\ UNCHANGED <<sessionExists, windows, cur, nextId, renumber, inside, scenario,
                   preset, select_calls, project_key, validated, window_name,
                   target_index, verified_name, cws_target, window_target,
                   project_target, s3_target, cand, moved, attempt, slept,
                   ready, pane_indices, projectId, tgtAge, foreign, runs,
                   peer, twin, args, ret>>

\* tmux new-window -a -t <session> -n <name> -d: the window goes right after
\* the current window, the windows in its way move up
CreateAuxWindow(at, name, next) ==
    /\ pc = at
    /\ \E ok \in Oks :
          LET done == ok /\ sessionExists /\ cur \in Indices /\ nextId <= MaxIds
          IN  /\ Issued(Entry("new-window", -1, -1, <<>>, Rc(done), Fresh, IF done THEN nextId ELSE 0), ok)
              /\ IF done
                 THEN /\ windows' = WithWindow(ShuffleUp(windows, cur + 1), cur + 1, NewWindow(name))
                      /\ nextId' = nextId + 1
                 ELSE UNCHANGED <<windows, nextId>>
    /\ pc' = next
    /\ UNCHANGED <<sessionExists, cur, renumber, inside, scenario, preset,
                   select_calls, project_key, validated, window_name,
                   target_index, verified_name, cws_target, window_target,
                   project_target, s3_target, cand, moved, attempt, slept,
                   ready, pane_indices, projectId, tgtAge, foreign, runs,
                   peer, twin, args, ret>>

create_ccusage_window ==
    \/ HasSession("ccu_has_session", "ccu_new_window", "log_has_session")
    \/ CreateAuxWindow("ccu_new_window", CCUSAGE, "log_has_session")

create_log_window ==
    \/ HasSession("log_has_session", "log_new_window", "cpw_has_session")
    \/ CreateAuxWindow("log_new_window", MNGRLOG, "cpw_has_session")

(***************************************************************************)
(* TmuxManager._create_window_safe, called with insert_left = False        *)
(***************************************************************************)
RECURSIVE find_next_available_index(_, _)
find_next_available_index(existing_indices, current_index) ==
    IF current_index \in existing_indices
    THEN find_next_available_index(existing_indices, current_index + 1)
    ELSE current_index

\* list-windows -F '#{window_index}', then the scan from 1001
CwsFindIndex ==
    /\ pc = "cws_find_index"
    /\ \E ok \in Oks :
          LET read == ok /\ sessionExists
              existing_indices == IF read THEN Indices ELSE {}
          IN  /\ Issued(_run_tmux_command(Entry("list-windows", -1, -1, <<>>, Rc(read), Fresh, 0), FALSE), ok)
              /\ target_index' = find_next_available_index(existing_indices, ParkingStart)
    /\ pc' = "cws_new_window"
    /\ UNCHANGED <<sessionExists, windows, cur, nextId, renumber, inside, scenario,
                   preset, select_calls, project_key, validated, window_name,
                   verified_name, cws_target, window_target, project_target,
                   s3_target, cand, moved, attempt, slept, ready,
                   pane_indices, projectId, tgtAge, foreign, runs, peer,
                   twin, args, ret>>

\* new-window -t <session>:<index> -n <name> -d -P: fails when the index is taken
CwsNewWindow ==
    /\ pc = "cws_new_window"
    /\ \E ok \in Oks :
          LET done == ok /\ sessionExists /\ target_index \notin Indices /\ nextId <= MaxIds
          IN  /\ Issued(_run_tmux_command(Entry("new-window", target_index, -1, <<>>, Rc(done), Fresh,
                              IF done THEN nextId ELSE 0), TRUE), ok)
              /\ cws_target' = Target(target_index)
              /\ tgtAge' = Fresh
              /\ IF done
                 THEN /\ windows' = WithWindow(windows, target_index, NewWindow(window_name))
                      /\ nextId' = nextId + 1
                      /\ projectId' = nextId
                      /\ pc' = "cws_verify"
                 ELSE /\ pc' = "done"
                      /\ UNCHANGED <<windows, nextId, projectId>>
    /\ UNCHANGED <<sessionExists, cur, renumber, inside, scenario, preset,
                   select_calls, project_key, validated, window_name,
                   target_index, verified_name, window_target,
                   project_target, s3_target, cand, moved, attempt, slept,
                   ready, pane_indices, foreign, runs, peer, twin, args, ret>>

\* (the target returned as soon as the window answers, whatever its name)
CwsVerify_Unchecked ==
    /\ pc = "cws_verify"
    /\ \E ok \in Oks :
          LET idx == IndexOf(cws_target)
              read == ok /\ idx \in Indices
              name == IF read THEN Strip(windows[idx].name \o <<NL>>) ELSE None
          IN  /\ Issued(_run_tmux_command(Entry("display-message", idx, -1, <<"#{window_name}">>, Rc(read), tgtAge, IdAt(idx)), FALSE), ok)
              /\ verified_name' = name
              /\ IF read
                 THEN /\ window_target' = cws_target
                      /\ cand' = 1
                      /\ pc' = "mv_try"
                 ELSE /\ pc' = "done"
                      /\ UNCHANGED <<window_target, cand>>
    /\ UNCHANGED <<sessionExists, windows, cur, nextId, renumber, inside, scenario,
                   preset, select_calls, project_key, validated, window_name,
                   target_index, cws_target, project_target, s3_target,
                   moved, attempt, slept, ready, pane_indices, projectId,
                   tgtAge, foreign, runs, peer, twin, args, ret>>

\* display-message -t <target> -p '#{window_name}': the target is returned only
\* when the name read back is the name asked for
CwsVerify ==
    /\ pc = "cws_verify"
    /\ \E ok \in Oks :
          LET idx == IndexOf(cws_target)
              read == ok /\ idx \in Indices
              name == IF read THEN Strip(windows[idx].name \o <<NL>>) ELSE None
          IN  /\ Issued(_run_tmux_command(Entry("display-message", idx, -1, <<"#{window_name}">>, Rc(read), tgtAge, IdAt(idx)), FALSE), ok)
              /\ verified_name' = name
              /\ IF read /\ name = window_name
                 THEN /\ window_target' = cws_target
                      /\ cand' = 1
                      /\ pc' = "mv_try"
                 ELSE /\ pc' = "done"
                      /\ UNCHANGED <<window_target, cand>>
    /\ UNCHANGED <<sessionExists, windows, cur, nextId, renumber, inside, scenario,
                   preset, select_calls, project_key, validated, window_name,
                   target_index, cws_target, project_target, s3_target,
                   moved, attempt, slept, ready, pane_indices, projectId,
                   tgtAge, foreign, runs, peer, twin, args, ret>>

\* create_project_window up to the creation of the window
CpwStart ==
    /\ pc = "cpw_has_session"
    /\ \E ok \in Oks :
          /\ Issued(_run_tmux_command(Entry("has-session", -1, -1, <<>>, Rc(sessionExists /\ ok), Fresh, 0), FALSE), ok)
          /\ IF sessionExists /\ ok
             THEN /\ window_name' = BaseName(project_key)
                  /\ pc' = "cws_has_session"
             ELSE /\ pc' = "done"
                  /\ UNCHANGED window_name
    /\ UNCHANGED <<sessionExists, windows, cur, nextId, renumber, inside, scenario,
                   preset, select_calls, project_key, validated,
                   target_index, verified_name, cws_target, window_target,
                   project_target, s3_target, cand, moved, attempt, slept,
                   ready, pane_indices, projectId, tgtAge, foreign, runs,
                   peer, twin, args, ret>>

_create_window_safe ==
    \/ HasSession("cws_has_session", "cws_find_index", "done")
    \/ CwsFindIndex
    \/ CwsNewWindow
    \/ CwsVerify

(***************************************************************************)
(* The rightmost move                                                      *)
(***************************************************************************)
\* tmux move-window -s <session>:<src> -t <session>:<dst>: the error text, or
\* <<>> when the window moves
MoveStderr(src, dst, ok) ==
    IF ~ok THEN ServerMsg
    ELSE IF src \notin Indices THEN CantFindMsg
    ELSE IF dst = src THEN SameIndexMsg(dst)
    ELSE IF dst \in Indices THEN IndexInUseMsg(dst)
    ELSE <<>>

\* the session after the window at src moved to the free index dst; the moved
\* window becomes the current one (no -d)
MoveWindow(src, dst) ==
    /\ windows' = WithWindow(Without(windows, src), dst, windows[src])
    /\ cur' = dst

\* (the target of before the move kept after it)
MoveAndGetTarget_Stale ==
    /\ pc = "mv_try"
    /\ \E ok \in Oks :
          LET src == IndexOf(window_target)
              target_index_ == Candidates[cand]
              stderr == MoveStderr(src, target_index_, ok)
          IN  /\ Issued(EntryErr("move-window", target_index_, -1, <<>>, stderr, tgtAge, IdAt(src)), ok)
              /\ IF stderr = <<>>
                 THEN /\ MoveWindow(src, target_index_)
                      /\ moved' = Target(target_index_)
                      /\ window_target' = window_target
                      /\ tgtAge' = Len(log) + 1
                      /\ attempt' = 0
                      /\ pc' = "vfy_probe"
                      /\ UNCHANGED cand
                 ELSE IF MentionsIndexInUse(stderr) /\ cand < Len(Candidates)
                 THEN /\ cand' = cand + 1
                      /\ UNCHANGED <<windows, cur, moved, window_target, tgtAge, attempt, pc>>
                 ELSE /\ moved' = None
                      /\ attempt' = 0
                      /\ pc' = "vfy_probe"
                      /\ UNCHANGED <<windows, cur, window_target, tgtAge, cand>>
    /\ UNCHANGED <<sessionExists, nextId, renumber, inside, scenario, preset,
                   select_calls, project_key, validated, window_name,
                   target_index, verified_name, cws_target, project_target,
                   s3_target, slept, ready, pane_indices, projectId, foreign,
                   runs, peer, twin, args, ret>>

\* move_window_to_rightmost_and_get_target, one move-window per step
MoveAndGetTarget ==
    /\ pc = "mv_try"
    /\ \E ok \in Oks :
          LET src == IndexOf(window_target)
              target_index_ == Candidates[cand]
              stderr == MoveStderr(src, target_index_, ok)
          IN  /\ Issued(EntryErr("move-window", target_index_, -1, <<>>, stderr, tgtAge, IdAt(src)), ok)
              /\ IF stderr = <<>>
                 THEN /\ MoveWindow(src, target_index_)
                      /\ moved' = Target(target_index_)
                      /\ window_target' = Target(target_index_)
                      /\ tgtAge' = Len(log) + 1
                      /\ attempt' = 0
                      /\ pc' = "vfy_probe"
                      /\ UNCHANGED cand
                 ELSE IF MentionsIndexInUse(stderr) /\ cand < Len(Candidates)
                 THEN /\ cand' = cand + 1
                      /\ UNCHANGED <<windows, cur, moved, window_target, tgtAge, attempt, pc>>
                 ELSE /\ moved' = None
                      /\ attempt' = 0
                      /\ pc' = "vfy_probe"
                      /\ UNCHANGED <<windows, cur, window_target, tgtAge, cand>>
    /\ UNCHANGED <<sessionExists, nextId, renumber, inside, scenario, preset,
                   select_calls, project_key, validated, window_name,
                   target_index, verified_name, cws_target, project_target,
                   s3_target, slept, ready, pane_indices, projectId, foreign,
                   runs, peer, twin, args, ret>>

\* (the candidates tried again from the first when all are in use)
MoveToRightmost_Again ==
    /\ pc = "mvr_try"
    /\ \E ok \in Oks :
          LET src == IndexOf(window_target)
              target_index_ == Candidates[cand]
              stderr == MoveStderr(src, target_index_, ok)
          IN  /\ Issued(EntryErr("move-window", target_index_, -1, <<>>, stderr, tgtAge, IdAt(src)), ok)
              /\ IF stderr = <<>>
                 THEN /\ MoveWindow(src, target_index_)
                      /\ moved' = Target(target_index_)
                      /\ s3_target' = window_target
                      /\ pc' = "done"
                      /\ UNCHANGED cand
                 ELSE IF MentionsIndexInUse(stderr)
                 THEN /\ cand' = IF cand < Len(Candidates) THEN cand + 1 ELSE 1
                      /\ UNCHANGED <<windows, cur, moved, s3_target, pc>>
                 ELSE /\ moved' = None
                      /\ s3_target' = window_target
                      /\ pc' = "done"
                      /\ UNCHANGED <<windows, cur, cand>>
    /\ UNCHANGED <<sessionExists, nextId, renumber, inside, scenario, preset,
                   select_calls, project_key, validated, window_name,
                   target_index, verified_name, cws_target, window_target,
                   project_target, attempt, slept, ready, pane_indices,
                   projectId, tgtAge, foreign, runs, peer, twin, args, ret>>

\* (move-window -k: the window at the target index replaced)
MoveToRightmost_Force ==
    /\ pc = "mvr_try"
    /\ \E ok \in Oks :
          LET src == IndexOf(window_target)
              target_index_ == Candidates[cand]
              stderr == IF ok /\ src \in Indices /\ target_index_ \in Indices /\ target_index_ # src
                        THEN <<>> ELSE MoveStderr(src, target_index_, ok)
          IN  /\ Issued(EntryErr("move-window", target_index_, -1, <<>>, stderr, tgtAge, IdAt(src)), ok)
              /\ IF stderr = <<>>
                 THEN /\ windows' = WithWindow(Without(Without(windows, src), target_index_), target_index_, windows[src])
                      /\ cur' = target_index_
                      /\ moved' = Target(target_index_)
                      /\ s3_target' = window_target
                      /\ pc' = "done"
                      /\ UNCHANGED cand
                 ELSE IF MentionsIndexInUse(stderr) /\ cand < Len(Candidates)
                 THEN /\ cand' = cand + 1
                      /\ UNCHANGED <<windows, cur, moved, s3_target, pc>>
                 ELSE /\ moved' = None
                      /\ s3_target' = window_target
                      /\ pc' = "done"
                      /\ UNCHANGED <<windows, cur, cand>>
    /\ UNCHANGED <<sessionExists, nextId, renumber, inside, scenario, preset,
                   select_calls, project_key, validated, window_name,
                   target_index, verified_name, cws_target, window_target,
                   project_target, attempt, slept, ready, pane_indices,
                   projectId, tgtAge, foreign, runs, peer, twin, args, ret>>

\* move_window_to_rightmost, as setup_current_window_as_project calls it: the
\* caller keeps the target it had and returns it
MoveToRightmost ==
    /\ pc = "mvr_try"
    /\ \E ok \in Oks :
          LET src == IndexOf(window_target)
              target_index_ == Candidates[cand]
              stderr == MoveStderr(src, target_index_, ok)
          IN  /\ Issued(EntryErr("move-window", target_index_, -1, <<>>, stderr, tgtAge, IdAt(src)), ok)
              /\ IF stderr = <<>>
                 THEN /\ MoveWindow(src, target_index_)
                      /\ moved' = Target(target_index_)
                      /\ s3_target' = window_target
                      /\ pc' = "done"
                      /\ UNCHANGED cand
                 ELSE IF MentionsIndexInUse(stderr) /\ cand < Len(Candidates)
                 THEN /\ cand' = cand + 1
                      /\ UNCHANGED <<windows, cur, moved, s3_target, pc>>
                 ELSE /\ moved' = None
                      /\ s3_target' = window_target
                      /\ pc' = "done"
                      /\ UNCHANGED <<windows, cur, cand>>
    /\ UNCHANGED <<sessionExists, nextId, renumber, inside, scenario, preset,
                   select_calls, project_key, validated, window_name,
                   target_index, verified_name, cws_target, window_target,
                   project_target, attempt, slept, ready, pane_indices,
                   projectId, tgtAge, foreign, runs, peer, twin, args, ret>>

(***************************************************************************)
(* TmuxManager._verify_window_ready                                        *)
(***************************************************************************)
\* (the same wait after every failed probe)
Delay_Flat(n) == 1

\* time.sleep(0.1 * (attempt + 1)), in tenths of a second
Delay(n) == n + 1

\* (the layout built whatever the probes said)
VerifyWindowReady_Ignored ==
    /\ pc = "vfy_probe"
    /\ \E ok \in BOOLEAN :
          LET idx == IndexOf(window_target)
              answered == ok /\ idx \in Indices
          IN  /\ Issued(_run_tmux_command(Entry("display-message", idx, -1, <<"#{window_id}">>, Rc(answered),
                            tgtAge, IdAt(idx)), FALSE), TRUE)
              /\ IF answered
                 THEN /\ ready' = "True"
                      /\ pc' = "lay_split"
                      /\ UNCHANGED <<attempt, slept>>
                 ELSE IF attempt < MaxRetries - 1
                 THEN /\ slept' = Append(slept, [after |-> Len(log) + 1, tenths |-> Delay(attempt)])
                      /\ attempt' = attempt + 1
                      /\ UNCHANGED <<pc, ready>>
                 ELSE /\ ready' = "False"
                      /\ pc' = "lay_split"
                      /\ UNCHANGED <<attempt, slept>>
    /\ UNCHANGED <<sessionExists, windows, cur, nextId, renumber, inside, scenario,
                   preset, select_calls, project_key, validated, window_name,
                   target_index, verified_name, cws_target, window_target,
                   project_target, s3_target, cand, moved, pane_indices,
                   projectId, tgtAge, foreign, runs, peer, twin, args, ret>>

\* display-message -t <target> -p '#{window_id}', at most MaxRetries times; a
\* window may not answer yet, which is no fault of the command
VerifyWindowReady ==
    /\ pc = "vfy_probe"
    /\ \E ok \in BOOLEAN :
          LET idx == IndexOf(window_target)
              answered == ok /\ idx \in Indices
          IN  /\ Issued(_run_tmux_command(Entry("display-message", idx, -1, <<"#{window_id}">>, Rc(answered),
                            tgtAge, IdAt(idx)), FALSE), TRUE)
              /\ IF answered
                 THEN /\ ready' = "True"
                      /\ pc' = "lay_split"
                      /\ UNCHANGED <<attempt, slept>>
                 ELSE IF attempt < MaxRetries - 1
                 THEN /\ slept' = Append(slept, [after |-> Len(log) + 1, tenths |-> Delay(attempt)])
                      /\ attempt' = attempt + 1
                      /\ UNCHANGED <<pc, ready>>
                 ELSE /\ ready' = "False"
                      /\ pc' = "done"
                      /\ UNCHANGED <<attempt, slept>>
    /\ UNCHANGED <<sessionExists, windows, cur, nextId, renumber, inside, scenario,
                   preset, select_calls, project_key, validated, window_name,
                   target_index, verified_name, cws_target, window_target,
                   project_target, s3_target, cand, moved, pane_indices,
                   projectId, tgtAge, foreign, runs, peer, twin, args, ret>>

(***************************************************************************)
(* TmuxManager.setup_standard_project_layout                               *)
(***************************************************************************)
EditorKeys == <<"editor task_file", "Enter">>

ClaudeKeys == <<"claude_cmd", "Enter">>

\* (the interrupt typed before the screen is cleared)
ClearKeys_Interrupt == <<"C-c", "clear", "Enter">>

ClearKeys == <<"clear", "Enter">>

\* (the exit code of split-window not read)
LaySplit_Unread ==
    /\ pc = "lay_split"
    /\ \E ok \in Oks :
          LET idx == IndexOf(window_target)
              done == ok /\ idx \in Indices /\ windows[idx].panes < MaxPanes
          IN  /\ Issued(_run_tmux_command(Entry("split-window", idx, -1, <<>>, Rc(done), tgtAge, IdAt(idx)), TRUE), ok)
              /\ IF done
                 THEN /\ windows' = [windows EXCEPT ![idx].panes = @ + 1]
                      /\ pc' = "lay_task"
                 ELSE /\ pc' = "lay_task"
                      /\ UNCHANGED windows
    /\ UNCHANGED <<sessionExists, cur, nextId, renumber, inside, scenario, preset,
                   select_calls, project_key, validated, window_name,
                   target_index, verified_name, cws_target, window_target,
                   project_target, s3_target, cand, moved, attempt, slept,
                   ready, pane_indices, projectId, tgtAge, foreign, runs,
                   peer, twin, args, ret>>

\* (a failed split tried again)
LaySplit_Retried ==
    /\ pc = "lay_split"
    /\ \E ok \in Oks :
          LET idx == IndexOf(window_target)
              done == ok /\ idx \in Indices /\ windows[idx].panes < MaxPanes
          IN  /\ Issued(_run_tmux_command(Entry("split-window", idx, -1, <<>>, Rc(done), tgtAge, IdAt(idx)), TRUE), ok)
              /\ IF done
                 THEN /\ windows' = [windows EXCEPT ![idx].panes = @ + 1]
                      /\ pc' = "lay_task"
                 ELSE UNCHANGED <<pc, windows>>
    /\ UNCHANGED <<sessionExists, cur, nextId, renumber, inside, scenario, preset,
                   select_calls, project_key, validated, window_name,
                   target_index, verified_name, cws_target, window_target,
                   project_target, s3_target, cand, moved, attempt, slept,
                   ready, pane_indices, projectId, tgtAge, foreign, runs,
                   peer, twin, args, ret>>

\* split-window -h -t <target>
LaySplit ==
    /\ pc = "lay_split"
    /\ \E ok \in Oks :
          LET idx == IndexOf(window_target)
              done == ok /\ idx \in Indices /\ windows[idx].panes < MaxPanes
          IN  /\ Issued(_run_tmux_command(Entry("split-window", idx, -1, <<>>, Rc(done), tgtAge, IdAt(idx)), TRUE), ok)
              /\ IF done
                 THEN /\ windows' = [windows EXCEPT ![idx].panes = @ + 1]
                      /\ pc' = "lay_task"
                 ELSE /\ pc' = "done"
                      /\ UNCHANGED windows
    /\ UNCHANGED <<sessionExists, cur, nextId, renumber, inside, scenario, preset,
                   select_calls, project_key, validated, window_name,
                   target_index, verified_name, cws_target, window_target,
                   project_target, s3_target, cand, moved, attempt, slept,
                   ready, pane_indices, projectId, tgtAge, foreign, runs,
                   peer, twin, args, ret>>

\* send-keys -t <target>.<pane> <command> Enter; the exit code is not read
LaySendKeys(at, pane, keys, next) ==
    /\ pc = at
    /\ \E ok \in Oks :
          LET idx == IndexOf(window_target)
              done == ok /\ idx \in Indices /\ pane < windows[idx].panes
          IN  Issued(Entry("send-keys", idx, pane, keys, Rc(done), tgtAge, IdAt(idx)), ok)
    /\ pc' = next
    /\ UNCHANGED <<sessionExists, windows, cur, nextId, renumber, inside, scenario,
                   preset, select_calls, project_key, validated, window_name,
                   target_index, verified_name, cws_target, window_target,
                   project_target, s3_target, cand, moved, attempt, slept,
                   ready, pane_indices, projectId, tgtAge, foreign, runs,
                   peer, twin, args, ret>>

\* select-pane -t <target>.1, then the return to the caller
LaySelect ==
    /\ pc = "lay_select"
    /\ \E ok \in Oks :
          LET idx == IndexOf(window_target)
              done == ok /\ idx \in Indices /\ 1 < windows[idx].panes
          IN  Issued(Entry("select-pane", idx, 1, <<>>, Rc(done), tgtAge, IdAt(idx)), ok)
    /\ IF scenario = "inside_tmux"
       THEN /\ cand' = 1
            /\ pc' = "mvr_try"
            /\ UNCHANGED project_target
       ELSE /\ project_target' = window_target
            /\ pc' = IF scenario = "outside_tmux_no_session" THEN "s1_kill_window" ELSE "attach"
            /\ UNCHANGED cand
    /\ UNCHANGED <<sessionExists, windows, cur, nextId, renumber, inside, scenario,
                   preset, select_calls, project_key, validated, window_name,
                   target_index, verified_name, cws_target, window_target,
                   s3_target, moved, attempt, slept, ready, pane_indices,
                   projectId, tgtAge, foreign, runs, peer, twin, args, ret>>

setup_standard_project_layout ==
    \/ LaySplit
    \/ LaySendKeys("lay_task", 0, EditorKeys, "lay_claude")
    \/ LaySendKeys("lay_claude", 1, ClaudeKeys, "lay_select")
    \/ LaySelect

(***************************************************************************)
(* handle_scenario_1 / handle_scenario_2: the end of the run               *)
(***************************************************************************)
\* the session after kill-window on the window at idx
KillWindow(idx) ==
    LET rest == Without(windows, idx)
        left == IF renumber THEN Renumbered(rest) ELSE rest
        sel == IF cur = idx THEN Neighbour(windows, idx) ELSE cur
    IN  /\ windows' = left
        /\ sessionExists' = (DOMAIN rest # {})
        /\ cur' = IF DOMAIN rest = {} THEN -1
                  ELSE IF renumber THEN Rank(rest, sel) ELSE sel

\* (the window at index 1 killed, as if the windows were numbered from 1)
KillPlaceholder_Index1 ==
    /\ pc = "s1_kill_window"
    /\ \E ok \in Oks :
          LET done == ok /\ 1 \in Indices
          IN  /\ Issued(Entry("kill-window", 1, -1, <<>>, Rc(done), Fresh, IdAt(1)), ok)
              /\ IF done THEN KillWindow(1) ELSE UNCHANGED <<windows, sessionExists, cur>>
    /\ pc' = "attach"
    /\ UNCHANGED <<nextId, renumber, inside, scenario, preset, select_calls,
                   project_key, validated, window_name, target_index,
                   verified_name, cws_target, window_target, project_target,
                   s3_target, cand, moved, attempt, slept, ready,
                   pane_indices, projectId, tgtAge, foreign, runs, peer,
                   twin, args, ret>>

\* tmux kill-window -t <session>:0; the exit code is not read
KillPlaceholder ==
    /\ pc = "s1_kill_window"
    /\ \E ok \in Oks :
          LET done == ok /\ 0 \in Indices
          IN  /\ Issued(Entry("kill-window", 0, -1, <<>>, Rc(done), Fresh, IdAt(0)), ok)
              /\ IF done THEN KillWindow(0) ELSE UNCHANGED <<windows, sessionExists, cur>>
    /\ pc' = "attach"
    /\ UNCHANGED <<nextId, renumber, inside, scenario, preset, select_calls,
                   project_key, validated, window_name, target_index,
                   verified_name, cws_target, window_target, project_target,
                   s3_target, cand, moved, attempt, slept, ready,
                   pane_indices, projectId, tgtAge, foreign, runs, peer,
                   twin, args, ret>>

\* tmux attach-session -t <project_target>
Attach ==
    /\ pc = "attach"
    /\ \E ok \in Oks :
          LET idx == IndexOf(project_target)
              done == ok /\ idx \in Indices
          IN  /\ Issued(Entry("attach-session", idx, -1, <<>>, Rc(done), tgtAge, IdAt(idx)), ok)
              /\ cur' = IF done THEN idx ELSE cur
    /\ pc' = "done"
    /\ UNCHANGED <<sessionExists, windows, nextId, renumber, inside, scenario,
                   preset, select_calls, project_key, validated, window_name,
                   target_index, verified_name, cws_target, window_target,
                   project_target, s3_target, cand, moved, attempt, slept,
                   ready, pane_indices, projectId, tgtAge, foreign, runs,
                   peer, twin, args, ret>>

(***************************************************************************)
(* TmuxManager.clear_current_window                                        *)
(***************************************************************************)
\* int() of a string of digits
RECURSIVE IntOf(_)
IntOf(s) == IF s = <<>> THEN 0
            ELSE 10 * IntOf(SubSeq(s, 1, Len(s) - 1))
                 + (CHOOSE d \in 0..9 : DigitOf(d) = s[Len(s)])

\* the lines of `tmux list-panes -F '#{pane_index}'` for a window of n panes
RECURSIVE PaneLines(_)
PaneLines(n) == IF n = 0 THEN <<>> ELSE PaneLines(n - 1) \o <<Str(n - 1)>>

\* (the exit code of list-panes not read: nothing listed, nothing killed)
ClrListPanes_Unread ==
    /\ pc = "clr_list_panes"
    /\ \E ok \in Oks :
          LET read == ok /\ cur \in Indices
          IN  /\ Issued(_run_tmux_command(Entry("list-panes", -1, -1, <<>>, Rc(read), Fresh, IdAt(cur)), TRUE), ok)
              /\ IF read
                 THEN /\ pane_indices' = SplitLines(Strip(ListOutput(PaneLines(windows[cur].panes))))
                      /\ projectId' = IdAt(cur)
                      /\ pc' = "clr_kill"
                 ELSE /\ pane_indices' = <<>>
                      /\ pc' = "clr_kill"
                      /\ UNCHANGED projectId
    /\ UNCHANGED <<sessionExists, windows, cur, nextId, renumber, inside, scenario,
                   preset, select_calls, project_key, validated, window_name,
                   target_index, verified_name, cws_target, window_target,
                   project_target, s3_target, cand, moved, attempt, slept,
                   ready, tgtAge, foreign, runs, peer, twin, args, ret>>

\* list-panes of the current window; a failure raises and ends the transform
ClrListPanes ==
    /\ pc = "clr_list_panes"
    /\ \E ok \in Oks :
          LET read == ok /\ cur \in Indices
          IN  /\ Issued(_run_tmux_command(Entry("list-panes", -1, -1, <<>>, Rc(read), Fresh, IdAt(cur)), TRUE), ok)
              /\ IF read
                 THEN /\ pane_indices' = SplitLines(Strip(ListOutput(PaneLines(windows[cur].panes))))
                      /\ projectId' = IdAt(cur)
                      /\ pc' = "clr_kill"
                 ELSE /\ pc' = "done"
                      /\ UNCHANGED <<pane_indices, projectId>>
    /\ UNCHANGED <<sessionExists, windows, cur, nextId, renumber, inside, scenario,
                   preset, select_calls, project_key, validated, window_name,
                   target_index, verified_name, cws_target, window_target,
                   project_target, s3_target, cand, moved, attempt, slept,
                   ready, tgtAge, foreign, runs, peer, twin, args, ret>>

\* the loop over the listed panes: kill-pane -t .<index> for every index but "0"
ClrKillPane ==
    /\ pc = "clr_kill"
    /\ pane_indices # <<>>
    /\ LET pane_idx == Head(pane_indices)
       IN  IF pane_idx # <<>> /\ pane_idx # <<"0">>
           THEN \E ok \in Oks :
                   LET done == ok /\ cur \in Indices /\ IntOf(pane_idx) < windows[cur].panes
                   IN  /\ Issued(_run_tmux_command(Entry("kill-pane", -1, IntOf(pane_idx), <<>>, Rc(done), Fresh, IdAt(cur)), TRUE), ok)
                       /\ windows' = IF done THEN [windows EXCEPT ![cur].panes = @ - 1]
                                     ELSE windows
           ELSE UNCHANGED <<log, faults, windows>>
    /\ pane_indices' = Tail(pane_indices)
    /\ UNCHANGED <<sessionExists, cur, nextId, renumber, pc, inside, scenario,
                   preset, select_calls, project_key, validated, window_name,
                   target_index, verified_name, cws_target, window_target,
                   project_target, s3_target, cand, moved, attempt, slept,
                   ready, projectId, tgtAge, foreign, runs, peer, twin, args,
                   ret>>

\* (the rename left out: the target is resolved right after the clear)
ClrClearScreen_NoRename ==
    /\ pc = "clr_kill"
    /\ pane_indices = <<>>
    /\ \E ok \in Oks :
          Issued(_run_tmux_command(Entry("send-keys", -1, 0, ClearKeys, Rc(ok /\ cur \in Indices), Fresh, IdAt(cur)), TRUE), ok)
    /\ pc' = "s3_target"
    /\ UNCHANGED <<sessionExists, windows, cur, nextId, renumber, inside, scenario,
                   preset, select_calls, project_key, validated, window_name,
                   target_index, verified_name, cws_target, window_target,
                   project_target, s3_target, cand, moved, attempt, slept,
                   ready, pane_indices, projectId, tgtAge, foreign, runs,
                   peer, twin, args, ret>>

\* send-keys -t .0 clear Enter
ClrClearScreen ==
    /\ pc = "clr_kill"
    /\ pane_indices = <<>>
    /\ \E ok \in Oks :
          Issued(_run_tmux_command(Entry("send-keys", -1, 0, ClearKeys, Rc(ok /\ cur \in Indices), Fresh, IdAt(cur)), TRUE), ok)
    /\ pc' = "rename"
    /\ UNCHANGED <<sessionExists, windows, cur, nextId, renumber, inside, scenario,
                   preset, select_calls, project_key, validated, window_name,
                   target_index, verified_name, cws_target, window_target,
                   project_target, s3_target, cand, moved, attempt, slept,
                   ready, pane_indices, projectId, tgtAge, foreign, runs,
                   peer, twin, args, ret>>

clear_current_window ==
    \/ ClrListPanes
    \/ ClrKillPane
    \/ ClrClearScreen

(***************************************************************************)
(* TmuxManager.setup_current_window_as_project                             *)
(***************************************************************************)
\* rename_current_window: tmux rename-window <name>; a failure is only warned
RenameCurrentWindow ==
    /\ pc = "rename"
    /\ \E ok \in Oks :
          LET done == ok /\ cur \in Indices
          IN  /\ Issued(Entry("rename-window", -1, -1, <<>>, Rc(done), Fresh, IdAt(cur)), ok)
              /\ windows' = IF done THEN [windows EXCEPT ![cur].name = BaseName(project_key)]
                            ELSE windows
    /\ window_name' = BaseName(project_key)
    /\ pc' = "s3_target"
    /\ UNCHANGED <<sessionExists, cur, nextId, renumber, inside, scenario, preset,
                   select_calls, project_key, validated, target_index,
                   verified_name, cws_target, window_target, project_target,
                   s3_target, cand, moved, attempt, slept, ready,
                   pane_indices, projectId, tgtAge, foreign, runs, peer,
                   twin, args, ret>>

\* display-message -p '#{session_name}:#{window_index}'
ResolveCurrentTarget ==
    /\ pc = "s3_target"
    /\ \E ok \in Oks :
          LET read == ok /\ cur \in Indices
          IN  /\ Issued(_run_tmux_command(Entry("display-message", -1, -1, <<"#{session_name}:#{window_index}">>, Rc(read), Fresh, IdAt(cur)), FALSE), ok)
              /\ IF read
                 THEN /\ window_target' = Target(cur)
                      /\ tgtAge' = Len(log) + 1
                      /\ attempt' = 0
                      /\ pc' = "vfy_probe"
                 ELSE /\ pc' = "done"
                      /\ UNCHANGED <<window_target, tgtAge, attempt>>
    /\ UNCHANGED <<sessionExists, windows, cur, nextId, renumber, inside, scenario,
                   preset, select_calls, project_key, validated, window_name,
                   target_index, verified_name, cws_target, project_target,
                   s3_target, cand, moved, slept, ready, pane_indices,
                   projectId, foreign, runs, peer, twin, args, ret>>

setup_current_window_as_project ==
    \/ clear_current_window
    \/ RenameCurrentWindow
    \/ ResolveCurrentTarget
    \/ (scenario = "inside_tmux" /\ VerifyWindowReady)
    \/ (scenario = "inside_tmux" /\ setup_standard_project_layout)
    \/ MoveToRightmost

create_project_window ==
    \/ CpwStart
    \/ _create_window_safe
    \/ MoveAndGetTarget
    \/ (scenario # "inside_tmux" /\ VerifyWindowReady)
    \/ (scenario # "inside_tmux" /\ setup_standard_project_layout)

(***************************************************************************)
(* The procedures and the runs                                             *)
(***************************************************************************)
\* (the placeholder window killed before any other window is created)
handle_scenario_1_KillFirst ==
    /\ scenario = "outside_tmux_no_session"
    /\ \/ NewSession
       \/ /\ pc = "ccu_has_session"
          /\ \E ok \in Oks :
                LET done == ok /\ 0 \in Indices
                IN  /\ Issued(Entry("kill-window", 0, -1, <<>>, Rc(done), Fresh, IdAt(0)), ok)
                    /\ IF done THEN KillWindow(0) ELSE UNCHANGED <<windows, sessionExists, cur>>
          /\ pc' = "done"
          /\ UNCHANGED <<nextId, renumber, inside, scenario, preset, select_calls,
                         project_key, validated, window_name, target_index,
                         verified_name, cws_target, window_target,
                         project_target, s3_target, cand, moved, attempt,
                         slept, ready, pane_indices, projectId, tgtAge,
                         foreign, runs, peer, twin, args, ret>>
       \/ create_ccusage_window
       \/ create_log_window
       \/ create_project_window
       \/ KillPlaceholder
       \/ Attach

\* (the placeholder deleted after a failed creation of the project window too)
handle_scenario_1_KillAnyway ==
    /\ scenario = "outside_tmux_no_session"
    /\ \/ NewSession
       \/ create_ccusage_window
       \/ create_log_window
       \/ create_project_window
       \/ /\ pc = "done" /\ project_target = None
          /\ log # <<>> /\ log[Len(log)].cmd \notin {"kill-window", "has-session", "new-session"}
          /\ \E ok \in Oks :
                LET done == ok /\ 0 \in Indices
                IN  /\ Issued(Entry("kill-window", 0, -1, <<>>, Rc(done), Fresh, IdAt(0)), ok)
                    /\ IF done THEN KillWindow(0) ELSE UNCHANGED <<windows, sessionExists, cur>>
          /\ pc' = "done"
          /\ UNCHANGED <<nextId, renumber, inside, scenario, preset, select_calls,
                         project_key, validated, window_name, target_index,
                         verified_name, cws_target, window_target,
                         project_target, s3_target, cand, moved, attempt,
                         slept, ready, pane_indices, projectId, tgtAge,
                         foreign, runs, peer, twin, args, ret>>
       \/ KillPlaceholder
       \/ Attach

handle_scenario_1 ==
    /\ scenario = "outside_tmux_no_session"
    /\ \/ NewSession
       \/ create_ccusage_window
       \/ create_log_window
       \/ create_project_window
       \/ KillPlaceholder
       \/ Attach

handle_scenario_2 ==
    /\ scenario = "outside_tmux_has_session"
    /\ \/ create_project_window
       \/ Attach

handle_scenario_3 ==
    /\ scenario = "inside_tmux"
    /\ setup_current_window_as_project

\* the process exits; the next invocation starts from the tmux state it left
RunEnd ==
    /\ pc = "done"
    /\ pc' = "idle" /\ inside' = FALSE /\ scenario' = "" /\ project_key' = None
    /\ preset' = None /\ select_calls' = 0
    /\ window_name' = None /\ target_index' = -1 /\ verified_name' = None
    /\ cws_target' = None /\ window_target' = None /\ project_target' = None
    /\ s3_target' = None /\ cand' = 0 /\ moved' = None /\ attempt' = 0
    /\ slept' = <<>> /\ ready' = "" /\ validated' = ""
    /\ pane_indices' = <<>> /\ projectId' = 0 /\ tgtAge' = 0 /\ log' = <<>>
    /\ UNCHANGED <<tmuxVars, fnVars, faults, runs, foreign, peer, twin>>

Next ==
    \/ Detect
    \/ SelectProject
    \/ handle_scenario_1
    \/ handle_scenario_2
    \/ handle_scenario_3
    \/ RunEnd

Spec == Init /\ [][Next]_vars

(***************************************************************************)
(* Other clients of the tmux server                                        *)
(***************************************************************************)
MaxForeign == 1      \* commands of other clients in one behaviour

OtherName == <<"v","i","m">>

\* another client (the user, a second instance) renames a window of the
\* session while a run is creating its window
ForeignRename ==
    /\ pc \in {"cws_has_session", "cws_find_index", "cws_new_window", "cws_verify"}
    /\ foreign < MaxForeign
    /\ \E i \in Indices : windows' = [windows EXCEPT ![i].name = OtherName]
    /\ foreign' = foreign + 1
    /\ UNCHANGED <<sessionExists, cur, nextId, renumber, pc, inside, scenario,
                   preset, select_calls, project_key, validated, window_name,
                   target_index, verified_name, cws_target, window_target,
                   project_target, s3_target, cand, moved, attempt, slept,
                   ready, pane_indices, projectId, tgtAge, log, faults, runs,
                   peer, twin, args, ret>>

\* the runs with another client at work, one invocation fewer than alone
NextEnv ==
    \/ (Next /\ runs' < MaxRuns)
    \/ ForeignRename

SpecEnv == Init /\ [][NextEnv]_vars

(***************************************************************************)
(* The rightmost move on its own: any occupation of the candidate indices  *)
(***************************************************************************)
\* the indices windows may sit at when the move starts
MoveIndices == {0, 999, 1000, 1001, 1002, 1003, 1004}

\* the windows at the indices of occupied, numbered from the left
Parked(occupied, mover, name) ==
    [i \in occupied |-> [id |-> Cardinality({j \in occupied : j < i}) + 1,
                         name |-> IF i = mover THEN name ELSE PLACEHOLDER,
                         panes |-> IF i = mover THEN 2 ELSE 1]]

\* create_project_window has created and verified the window (it sits where
\* _find_next_available_index put it), or setup_current_window_as_project has
\* laid out the current window; the move is about to start
InitMove ==
    /\ \E occupied \in SUBSET MoveIndices, mover \in MoveIndices, k \in Keys, inner \in BOOLEAN :
          /\ mover \in occupied
          /\ ~inner => mover = find_next_available_index(occupied \ {mover}, ParkingStart)
          /\ windows = Parked(occupied, mover, BaseName(k))
          /\ nextId = Cardinality(occupied) + 1
          /\ cur = IF inner THEN mover ELSE CHOOSE i \in occupied : \A j \in occupied : i <= j
          /\ inside = inner
          /\ scenario = IF inner THEN "inside_tmux" ELSE "outside_tmux_has_session"
          /\ pc = IF inner THEN "mvr_try" ELSE "mv_try"
          /\ project_key = k
          /\ window_name = BaseName(k)
          /\ target_index = IF inner THEN -1 ELSE mover
          /\ verified_name = IF inner THEN None ELSE BaseName(k)
          /\ cws_target = IF inner THEN None ELSE Target(mover)
          /\ window_target = Target(mover)
          /\ projectId = Cardinality({j \in occupied : j < mover}) + 1
    /\ sessionExists = TRUE
    /\ renumber \in BOOLEAN
    /\ project_target = None /\ s3_target = None /\ cand = 1 /\ moved = None
    /\ attempt = 0 /\ slept = <<>> /\ ready = "" /\ validated = "True"
    /\ pane_indices = <<>> /\ tgtAge = 0 /\ log = <<>>
    /\ foreign = 0 /\ faults = 0 /\ runs = 1 /\ peer = None /\ twin = None
    /\ preset = None /\ select_calls = 1
    /\ args = None /\ ret = None

NextMove ==
    \/ MoveAndGetTarget
    \/ MoveToRightmost

SpecMove == InitMove /\ [][NextMove]_vars

(***************************************************************************)
(* The name functions on their own                                         *)
(***************************************************************************)
\* the characters the drawn names are made of
\* create_project_window is about to call _create_window_safe on a session the
\* user and earlier runs have left windows in (windows may have been closed
\* since, so the indices in use need not be contiguous)
InitCreate ==
    /\ \E occupied \in SUBSET MoveIndices, k \in Keys :
          /\ occupied # {} /\ Cardinality(occupied) < MaxIds
          /\ windows = Parked(occupied, -1, BaseName(k))
          /\ nextId = Cardinality(occupied) + 1
          /\ cur = CHOOSE i \in occupied : \A j \in occupied : i <= j
          /\ project_key = k
          /\ window_name = BaseName(k)
    /\ pc = "cws_has_session"
    /\ sessionExists = TRUE
    /\ renumber = FALSE
    /\ inside = FALSE /\ scenario = "outside_tmux_has_session"
    /\ target_index = -1 /\ verified_name = None /\ cws_target = None
    /\ window_target = None /\ projectId = 0
    /\ project_target = None /\ s3_target = None /\ cand = 0 /\ moved = None
    /\ attempt = 0 /\ slept = <<>> /\ ready = "" /\ validated = "True"
    /\ pane_indices = <<>> /\ tgtAge = 0 /\ log = <<>>
    /\ foreign = 0 /\ faults = 0 /\ runs = 1 /\ peer = None /\ twin = None
    /\ preset = None /\ select_calls = 1
    /\ args = None /\ ret = None

NextCreate == _create_window_safe

SpecCreate == InitCreate /\ [][NextCreate]_vars

\* a caller is about to verify its window: create_project_window after the
\* move, setup_current_window_as_project after it resolved its target
InitVerify ==
    /\ \E occupied \in SUBSET MoveIndices, at \in MoveIndices, k \in Keys, inner \in BOOLEAN :
          /\ at \in occupied
          /\ windows = Parked(occupied, at, BaseName(k))
          /\ nextId = Cardinality(occupied) + 1
          /\ cur = IF inner THEN at ELSE CHOOSE i \in occupied : \A j \in occupied : i <= j
          /\ inside = inner
          /\ scenario = IF inner THEN "inside_tmux" ELSE "outside_tmux_has_session"
          /\ project_key = k
          /\ window_name = BaseName(k)
          /\ window_target = Target(at)
          /\ projectId = Cardinality({j \in occupied : j < at}) + 1
    /\ pc = "vfy_probe"
    /\ sessionExists = TRUE
    /\ renumber = FALSE
    /\ target_index = -1 /\ verified_name = None /\ cws_target = None
    /\ project_target = None /\ s3_target = None /\ cand = 1 /\ moved = None
    /\ attempt = 0 /\ slept = <<>> /\ ready = "" /\ validated = "True"
    /\ pane_indices = <<>> /\ tgtAge = 0 /\ log = <<>>
    /\ foreign = 0 /\ faults = 0 /\ runs = 1 /\ peer = None /\ twin = None
    /\ preset = None /\ select_calls = 1
    /\ args = None /\ ret = None

NextVerify == VerifyWindowReady

\* the loop is sequential code: every probe returns and the next statement runs
SpecVerify == InitVerify /\ [][NextVerify]_vars /\ WF_vars(NextVerify)

NameChars == {"a", "_", "7", "-", " "}

\* the sequences over chars of length 0..n
RECURSIVE Words(_, _)
Words(chars, n) ==
    IF n = 0 THEN {<<>>}
    ELSE LET shorter == Words(chars, n - 1)
         IN  shorter \cup {Append(w, c) : w \in shorter, c \in chars}

\* project keys: [a-zA-Z0-9_]+
FnKeys == Words({"a", "_", "7"}, MaxKeyLen) \ {<<>>}

\* the keys the unique-name function is called with: a numeric one and the
\* runs of one letter
UniqueKeys == {<<"7">>} \cup (Words({"a"}, MaxKeyLen) \ {<<>>})

\* names as tmux holds them: what a user or the program may have typed
TmuxNames ==
    {p \o t : p \in {PREFIX, <<"c","c","-">>, <<"x">> \o PREFIX, <<>>},
              t \in Words(NameChars, MaxKeyLen + 2)}
    \cup {<<"r","a","n","d","o","m","-","w","i","n","d","o","w">>, CCUSAGE, MNGRLOG}

\* get_current_window_name: display-message -p '#{window_name}', stripped
get_current_window_name(name) == Strip(name \o <<NL>>)

\* the window names a session may list next to those of the project key
Pool(key) ==
    LET base_name == BaseName(key)
    IN  {base_name, Suffixed(base_name, 1), Suffixed(base_name, 2), Suffixed(base_name, 3),
         base_name \o <<" ">>, BaseName(<<"z">>), PLACEHOLDER}

\* the sequences of 1..n different elements of S
Listings(S, n) ==
    {l \in Words(S, n) \ {<<>>} : \A i, j \in DOMAIN l : i # j => l[i] # l[j]}

\* the indices the index function is called on, and its start_index values
IndexPool == {0, 1, 2, 1001, 1002, 1003}

IndexStarts == {0, 1001}

\* the elements of a set of integers in ascending order, as tmux lists windows
RECURSIVE Ascending(_)
Ascending(S) ==
    IF S = {} THEN <<>>
    ELSE LET least == CHOOSE x \in S : \A y \in S : x <= y
         IN  <<least>> \o Ascending(S \ {least})

\* str.isdigit()
isdigit(s) == s # <<>> /\ \A i \in DOMAIN s : s[i] \in DigitChars

\* existing_indices: empty unless list-windows exited with 0 and printed
\* something; then the lines that are digits, as integers
existing_indices_of(returncode, stdout) ==
    IF returncode = 0 /\ Strip(stdout) # <<>>
    THEN {IntOf(idx) : idx \in {l \in Range(SplitLines(Strip(stdout))) : isdigit(l)}}
    ELSE {}

\* (one step past start_index instead of the scan)
_find_next_available_index_OneStep(returncode, stdout, start_index) ==
    IF start_index \in existing_indices_of(returncode, stdout)
    THEN start_index + 1 ELSE start_index

\* _find_next_available_index on the exit code and output of
\* list-windows -F '#{window_index}'
_find_next_available_index(returncode, stdout, start_index) ==
    find_next_available_index(existing_indices_of(returncode, stdout), start_index)

\* a key with a letter, the underscore and a digit
MixedKey == <<"a", "_", "7">>

FnArgs ==
    {[fn |-> "detect_scenario", inside_tmux |-> i, session_exists |-> e] : i \in BOOLEAN, e \in BOOLEAN}
    \cup {[fn |-> "extract_project_from_window", window_name |-> get_current_window_name(n)] :
            n \in TmuxNames \ {<<>>}}
    \cup UNION {{[fn |-> "get_unique_window_name", project_key |-> k, returncode |-> rc, listed |-> l] :
                    rc \in {0, 1}, l \in Listings(Pool(k), MaxListed)} : k \in UniqueKeys}
    \cup {[fn |-> "get_unique_window_name", project_key |-> MixedKey, returncode |-> rc, listed |-> l] :
            rc \in {0, 1}, l \in Listings(Pool(MixedKey), 2)}
    \cup {[fn |-> "_find_next_available_index", returncode |-> rc, indices |-> S, start_index |-> st] :
            rc \in {0, 1}, S \in SUBSET IndexPool, st \in IndexStarts}

InitFn ==
    /\ args \in FnArgs
    /\ ret = None
    /\ sessionExists = FALSE /\ windows = <<>> /\ cur = -1 /\ nextId = 1 /\ renumber = FALSE
    /\ NoLocals
    /\ faults = 0 /\ runs = 0 /\ peer = None /\ twin = None

CallDetect ==
    /\ ret = None /\ args.fn = "detect_scenario"
    /\ ret' = <<detect_scenario(args.inside_tmux, args.session_exists)>>
    /\ UNCHANGED <<sessionExists, windows, cur, nextId, renumber, pc, inside,
                   scenario, preset, select_calls, project_key, validated,
                   window_name, target_index, verified_name, cws_target,
                   window_target, project_target, s3_target, cand, moved,
                   attempt, slept, ready, pane_indices, projectId, tgtAge,
                   log, foreign, faults, runs, peer, twin, args>>

CallExtract ==
    /\ ret = None /\ args.fn = "extract_project_from_window"
    /\ ret' = <<extract_project_from_window(args.window_name)>>
    /\ UNCHANGED <<sessionExists, windows, cur, nextId, renumber, pc, inside,
                   scenario, preset, select_calls, project_key, validated,
                   window_name, target_index, verified_name, cws_target,
                   window_target, project_target, s3_target, cand, moved,
                   attempt, slept, ready, pane_indices, projectId, tgtAge,
                   log, foreign, faults, runs, peer, twin, args>>

CallUnique ==
    /\ ret = None /\ args.fn = "get_unique_window_name"
    /\ ret' = <<get_unique_window_name(args.project_key, args.returncode, ListOutput(args.listed))>>
    /\ UNCHANGED <<sessionExists, windows, cur, nextId, renumber, pc, inside,
                   scenario, preset, select_calls, project_key, validated,
                   window_name, target_index, verified_name, cws_target,
                   window_target, project_target, s3_target, cand, moved,
                   attempt, slept, ready, pane_indices, projectId, tgtAge,
                   log, foreign, faults, runs, peer, twin, args>>

\* the output of list-windows -F '#{window_index}' for the windows at indices
IndexOutput(indices) ==
    ListOutput([i \in 1..Cardinality(indices) |-> Str(Ascending(indices)[i])])

CallFindIndex ==
    /\ ret = None /\ args.fn = "_find_next_available_index"
    /\ ret' = <<_find_next_available_index(args.returncode, IndexOutput(args.indices), args.start_index)>>
    /\ UNCHANGED <<sessionExists, windows, cur, nextId, renumber, pc, inside,
                   scenario, preset, select_calls, project_key, validated,
                   window_name, target_index, verified_name, cws_target,
                   window_target, project_target, s3_target, cand, moved,
                   attempt, slept, ready, pane_indices, projectId, tgtAge,
                   log, foreign, faults, runs, peer, twin, args>>

NextFn ==
    \/ CallDetect
    \/ CallExtract
    \/ CallUnique
    \/ CallFindIndex

SpecFn == InitFn /\ [][NextFn]_vars

(***************************************************************************)
(* Two invocations started outside tmux against the same session name.     *)
(* Each is a sequential process that blocks on every tmux command, so the  *)
(* tmux server sees an interleaving of the two command sequences: the      *)
(* actions run the scheduled instance, Switch schedules the other one.     *)
(***************************************************************************)
Locals ==
    [pc |-> pc, inside |-> inside, scenario |-> scenario, project_key |-> project_key,
     preset |-> preset, select_calls |-> select_calls,
     validated |-> validated, window_name |-> window_name, target_index |-> target_index,
     verified_name |-> verified_name, cws_target |-> cws_target,
     window_target |-> window_target, project_target |-> project_target,
     s3_target |-> s3_target, cand |-> cand, moved |-> moved, attempt |-> attempt,
     slept |-> slept, ready |-> ready, pane_indices |-> pane_indices,
     projectId |-> projectId, tgtAge |-> tgtAge, log |-> log]

\* the other process issues the next command, if it has one left
Switch ==
    /\ peer.pc # "done"
    /\ peer' = Locals
    /\ pc' = peer.pc /\ inside' = peer.inside /\ scenario' = peer.scenario
    /\ project_key' = peer.project_key /\ validated' = peer.validated
    /\ preset' = peer.preset /\ select_calls' = peer.select_calls
    /\ window_name' = peer.window_name /\ target_index' = peer.target_index
    /\ verified_name' = peer.verified_name /\ cws_target' = peer.cws_target
    /\ window_target' = peer.window_target /\ project_target' = peer.project_target
    /\ s3_target' = peer.s3_target /\ cand' = peer.cand /\ moved' = peer.moved
    /\ attempt' = peer.attempt /\ slept' = peer.slept /\ ready' = peer.ready
    /\ pane_indices' = peer.pane_indices /\ projectId' = peer.projectId
    /\ tgtAge' = peer.tgtAge /\ log' = peer.log
    /\ UNCHANGED <<tmuxVars, fnVars, foreign, faults, runs, twin>>

\* both are about to start; no command fails for a reason outside the session's
\* state: what the commands of one instance meet is the work of the other
InitPair ==
    /\ sessionExists \in BOOLEAN
    /\ windows = IF sessionExists THEN WithWindow(<<>>, 0, [id |-> 1, name |-> PLACEHOLDER, panes |-> 1])
                 ELSE <<>>
    /\ cur = IF sessionExists THEN 0 ELSE -1
    /\ nextId = IF sessionExists THEN 2 ELSE 1
    /\ renumber \in BOOLEAN
    /\ NoLocals
    /\ peer = Locals
    /\ faults = MaxFaults /\ runs = 0 /\ twin = None
    /\ args = None /\ ret = None

NextPair ==
    \/ Switch
    \/ (Detect /\ ~inside')
    \/ SelectProject
    \/ handle_scenario_1
    \/ handle_scenario_2

SpecPair == InitPair /\ [][NextPair]_vars

(***************************************************************************)
(* Properties                                                              *)
(***************************************************************************)
Outside1 == "outside_tmux_no_session"

Inside3 == "inside_tmux"

\* the positions of the log that hold the command cmd
At(cmd) == {i \in 1..Len(log) : log[i].cmd = cmd}

\* every command of the run after the detection probe, up to the i-th, exited with 0
AllOkThrough(i) == \A j \in 2..i : log[j].rc = 0

\* C1: after handle_scenario_1 ran from no session with a valid project and every
\* command from new-session to kill-window succeeded, the session holds exactly
\* three windows, named ccusage, mngr-log and cc-mngr-<key>; the window that
\* new-session created is gone; the project window has two panes
C1_Scenario1Result ==
    (scenario = Outside1 /\ \E i \in At("kill-window") : AllOkThrough(i)) =>
        /\ Cardinality(Indices) = 3
        /\ \E u, l, p \in Indices :
              /\ windows[u].name = CCUSAGE
              /\ windows[l].name = MNGRLOG
              /\ windows[p].name = BaseName(project_key)
              /\ windows[p].id = projectId
              /\ windows[p].panes = 2
        /\ \A i \in Indices : windows[i].id # log[2].wid

C1_Witness ==
    /\ pc = "done" /\ scenario = Outside1
    /\ \E i \in At("kill-window") : AllOkThrough(i)
    /\ log[Len(log)].cmd = "attach-session"
    /\ log[2].cmd = "new-session" /\ log[2].wid # 0

\* C2: detect_scenario returns one of the three labels, decided by the pair
\* (inside_tmux, session_exists): (F,F) no session, (F,T) has session, (T,any) inside
C2_DetectTable ==
    (args.fn = "detect_scenario" /\ ret # None) =>
        /\ ret[1] \in {"outside_tmux_no_session", "outside_tmux_has_session", "inside_tmux"}
        /\ (~args.inside_tmux /\ ~args.session_exists) => ret[1] = "outside_tmux_no_session"
        /\ (~args.inside_tmux /\ args.session_exists) => ret[1] = "outside_tmux_has_session"
        /\ args.inside_tmux => ret[1] = "inside_tmux"

C2_Witness ==
    /\ args.fn = "detect_scenario" /\ args.inside_tmux /\ ~args.session_exists
    /\ ret = <<"inside_tmux">>

\* C3: the step that ends _create_window_safe hands a target to the caller only
\* if the window then at that target answered the query and bears the name asked for
C3_VerifiedCreation ==
    [][(pc = "cws_verify" /\ window_target' # None) =>
          /\ IndexOf(cws_target) \in Indices
          /\ windows[IndexOf(cws_target)].name = window_name
          /\ verified_name' = window_name
          /\ log'[Len(log')].rc = 0
          /\ window_target' = cws_target]_vars

\* the window was created, another client renamed it, the name read back
\* differed and the caller got None
C3_Witness ==
    /\ pc = "done" /\ scenario # Inside3
    /\ verified_name # None /\ verified_name # window_name
    /\ window_target = None
    /\ log[Len(log)].cmd = "display-message" /\ log[Len(log)].rc = 0

\* C4: get_unique_window_name(k) over the window names S: not in S; cc-mngr-k
\* when that is not in S, else cc-mngr-k-n for the least n >= 1 not in S;
\* cc-mngr-k when the list cannot be read
C4_UniqueName ==
    (args.fn = "get_unique_window_name" /\ ret # None) =>
        LET S == Range(args.listed)
            base == BaseName(args.project_key)
            r == ret[1]
        IN  IF args.returncode # 0 THEN r = base
            ELSE /\ r \notin S
                 /\ base \notin S => r = base
                 /\ base \in S =>
                       \E n \in 1..(Cardinality(S) + 1) :
                          /\ r = Suffixed(base, n)
                          /\ \A m \in 1..(n - 1) : Suffixed(base, m) \in S

\* C5: after the kill-window of handle_scenario_1 no command names a window by an
\* index obtained before it, and the attach reaches the project window
C5_NoStaleTarget ==
    \A i \in At("kill-window"), j \in 1..Len(log) :
        (log[i].rc = 0 /\ i < j /\ log[j].tgt # -1) =>
            /\ log[j].age >= i
            /\ log[j].cmd = "attach-session" => log[j].wid = projectId

\* C6: in the inside_tmux procedure no send-keys to pane 0 types C-c, and what
\* clear_current_window types into pane 0 of the current window is clear, Enter
C6_NoInterrupt ==
    scenario = Inside3 =>
        \A i \in At("send-keys") :
            log[i].pane = 0 =>
                /\ "C-c" \notin Range(log[i].keys)
                /\ log[i].tgt = -1 => log[i].keys = <<"clear", "Enter">>

C6_Witness ==
    /\ scenario = Inside3 /\ pc = "done" /\ s3_target # None
    /\ \E i \in At("send-keys") : log[i].pane = 0 /\ log[i].tgt = -1 /\ log[i].rc = 0

\* C7: no two windows of the session that bear a reserved project name bear the
\* same name
C7_UniqueProjectNames ==
    \A i, j \in Indices :
        (i # j /\ is_claude_manager_window(windows[i].name)
               /\ is_claude_manager_window(windows[j].name)) =>
            windows[i].name # windows[j].name

\* the move-window commands of the run, in order
Moves == SelectSeq(log, LAMBDA e : e.cmd = "move-window")

MoveOver == pc \notin {"mv_try", "mvr_try"}

RejectedInUse(e) == e.rc # 0 /\ e.err[1] = "index in use"

\* the index the window sat at when the move started
MoveSource == IF inside THEN IndexOf(window_target) ELSE IndexOf(cws_target)

\* the indices in use when the move started
InUseBefore ==
    IF moved # None THEN (Indices \ {IndexOf(moved)}) \cup {MoveSource} ELSE Indices

C9_CollisionOrAbort ==
    LET M == Moves
        n == Len(M)
    IN  /\ \A i \in 1..n :
              (RejectedInUse(M[i]) /\ i < 5) => (i < n \/ (~MoveOver /\ cand = i + 1))
        /\ \A i \in 1..n :
              (M[i].rc # 0 /\ ~RejectedInUse(M[i])) => (i = n /\ MoveOver /\ moved = None)
        /\ (n = 5 /\ \A i \in 1..n : RejectedInUse(M[i])) => (MoveOver /\ moved = None)

C9_Witness ==
    LET M == Moves
        n == Len(M)
    IN  /\ n >= 2 /\ n < 5 /\ RejectedInUse(M[1])
        /\ M[n].rc # 0 /\ ~RejectedInUse(M[n])
        /\ MoveOver /\ moved = None

\* (C9, third case reached) five collisions in a row end the move with no result
C9_AllInUse ==
    /\ Len(Moves) = 5 /\ \A i \in 1..5 : RejectedInUse(Moves[i])
    /\ MoveOver /\ moved = None

\* the keys and counters the drawn names can spell
KeyWords == Words({"a", "_", "7"}, MaxKeyLen + 2) \ {<<>>}

CounterWords == Words({"7"}, MaxKeyLen + 2) \ {<<>>}

\* cc-mngr-<key>[-<counter>], spelt out
ReservedNames ==
    {BaseName(k) : k \in KeyWords}
    \cup {BaseName(k) \o <<"-">> \o d : k \in KeyWords, d \in CounterWords}

\* C10: extract_project_from_window gives k for cc-mngr-k and for
\* cc-mngr-k-<digits>, and None for a name that is not of the reserved form
C10_PatternRoundTrip ==
    (args.fn = "extract_project_from_window" /\ ret # None) =>
        LET n == args.window_name
        IN  /\ \A k \in KeyWords :
                  /\ n = BaseName(k) => ret[1] = k
                  /\ \A d \in CounterWords : n = BaseName(k) \o <<"-">> \o d => ret[1] = k
            /\ n \notin ReservedNames => ret[1] = None
            /\ n = <<"r","a","n","d","o","m","-","w","i","n","d","o","w">> => ret[1] = None

C10_Witness ==
    /\ args.fn = "extract_project_from_window"
    /\ args.window_name = BaseName(<<"a", "_">>) \o <<"-", "7">>
    /\ ret = << <<"a", "_">> >>

\* the positions of the readiness probes in the log
Probes ==
    {i \in At("display-message") : log[i].keys = <<"#{window_id}">>}

FailedProbes == {i \in Probes : log[i].rc # 0}

C11_ProbesAndWaits ==
    LET n == Cardinality(Probes)
        exhausted == n = MaxRetries /\ FailedProbes = Probes
    IN  /\ n <= MaxRetries
        /\ \A i \in Probes : log[i].rc = 0 => (ready = "True" /\ \A j \in Probes : j <= i)
        /\ ready = "True" => \E i \in Probes : log[i].rc = 0
        /\ ready = "False" <=> exhausted
        /\ ready = "" => (FailedProbes = Probes /\ n < MaxRetries)
        /\ Len(slept) = IF exhausted THEN MaxRetries - 1 ELSE Cardinality(FailedProbes)
        /\ \A k \in 1..Len(slept) :
              /\ slept[k].after \in FailedProbes
              /\ Cardinality({i \in Probes : i <= slept[k].after}) = k
              /\ slept[k].tenths > 0
              /\ k > 1 => slept[k].tenths > slept[k - 1].tenths
              /\ ready # "" => \E i \in Probes : i > slept[k].after

\* C11: _verify_window_ready ends after at most max_retries probes: True at the
\* first probe that succeeds, with no probe after it; False when max_retries
\* probes failed; a wait after every failed probe but the last one, each longer
\* than the one before; no wait after the last probe
C11_BoundedVerify ==
    /\ []C11_ProbesAndWaits
    /\ (pc = "vfy_probe") ~> (ready # "")

C11_Witness ==
    /\ ready = "False" /\ Len(slept) = MaxRetries - 1
    /\ Cardinality(Probes) = MaxRetries
    /\ slept[MaxRetries - 1].tenths = MaxRetries - 1

\* the tmux commands that change a session
Mutating ==
    {"new-session", "new-window", "kill-pane", "rename-window", "split-window",
     "move-window", "kill-window", "kill-session", "send-keys"}

\* C12: in each scenario procedure, when the selection gave no key or
\* validate_project failed, the procedure has ended and the run issued no
\* command that changes the session
C12_NoCommandWithoutProject ==
    (pc \notin {"idle", "select"} /\ (project_key = None \/ validated = "False")) =>
        /\ pc = "done"
        /\ \A i \in 1..Len(log) : log[i].cmd \notin Mutating
        /\ project_target = None /\ s3_target = None /\ projectId = 0

C12_Witness ==
    /\ pc = "done" /\ scenario = Inside3
    /\ project_key # None /\ validated = "False"
    /\ runs = 2 /\ Cardinality(Indices) > 1

\* the new-window commands of _create_window_safe (they name an index)
ProjectCreations == {i \in At("new-window") : log[i].tgt # -1}

\* C13: when the creation of the project window failed and the procedure has
\* ended, exactly one further creation attempt was made after the failed one
C13_OneFallback ==
    (pc = "done" /\ \E i \in ProjectCreations :
                       log[i].rc # 0 /\ \A j \in ProjectCreations : i <= j) =>
        Cardinality(ProjectCreations) = 2

\* C14: when _verify_window_ready returned False the procedure has ended: no
\* command follows the last probe (no split-window, send-keys or attach-session
\* for the window), no layout was built and the caller got None
C14_AbortWhenNotReady ==
    ready = "False" =>
        /\ pc = "done"
        /\ Probes # {} /\ \A i \in 1..Len(log) : \E p \in Probes : i <= p
        /\ \A i \in 1..Len(log) :
              log[i].cmd \in {"split-window", "send-keys", "attach-session"} =>
                  \A p \in Probes : i < p
        /\ At("split-window") = {} /\ At("attach-session") = {}
        /\ project_target = None /\ s3_target = None

C14_Witness ==
    /\ ready = "False" /\ pc = "done" /\ scenario = Outside1
    /\ Cardinality(Indices) = 4
    /\ \E i \in Indices : windows[i].id = projectId /\ windows[i].panes = 1

\* C15: a step never ends the session once it exists; no kill-session is ever
\* issued; a kill-window is issued only while the session holds another window
\* besides the one it names
C15_SessionPersists ==
    [][/\ sessionExists => sessionExists'
       /\ Len(log') = Len(log) + 1 =>
             LET e == log'[Len(log')]
             IN  /\ e.cmd # "kill-session"
                 /\ e.cmd = "kill-window" =>
                       /\ e.tgt = 0 /\ pc = "s1_kill_window"
                       /\ \E i \in Indices : i # e.tgt]_vars

\* the placeholder was deleted from a session that one auxiliary window never joined
C15_Witness ==
    /\ pc = "attach" /\ sessionExists
    /\ log[Len(log)].cmd = "kill-window" /\ log[Len(log)].rc = 0
    /\ Cardinality(Indices) = 2

\* the step of the inside_tmux procedure a command belongs to
StepOf(e) ==
    CASE e.cmd \in {"list-panes", "kill-pane"} -> 1
      [] e.cmd = "send-keys" /\ e.tgt = -1 -> 1
      [] e.cmd = "rename-window" -> 2
      [] e.cmd = "display-message" /\ e.keys = <<"#{session_name}:#{window_index}">> -> 3
      [] e.cmd = "display-message" /\ e.keys = <<"#{window_id}">> -> 4
      [] e.cmd \in {"split-window", "select-pane"} -> 5
      [] e.cmd = "send-keys" /\ e.tgt # -1 -> 5
      [] e.cmd = "move-window" -> 6
      [] OTHER -> 0

Resolves == {i \in 1..Len(log) : StepOf(log[i]) = 3}

\* the i-th command of the run is the first of its kind
FirstOfKind(i) ==
    \A h \in 1..(i - 1) :
        \/ log[h].cmd # log[i].cmd
        \/ log[i].cmd = "send-keys" /\ (log[h].tgt = -1) # (log[i].tgt = -1)
        \/ log[i].cmd = "display-message" /\ log[h].keys # log[i].keys
        \/ log[i].cmd = "move-window" /\ log[h].rc # 0

\* C16: the inside_tmux procedure clears, renames, resolves the target, verifies,
\* splits and only then moves, each once; the split names the window by the
\* target resolved after the rename. Stated of the command issued last, in
\* every state: the log grows by one command at a time
C16_TransformOrder ==
    (scenario = Inside3 /\ log # <<>>) =>
        LET s == Len(log)
            e == log[s]
            k == StepOf(e)
        IN  /\ k # 0
            /\ s > 1 => StepOf(log[s - 1]) <= k
            /\ \/ e.cmd = "kill-pane"
               \/ e.cmd = "send-keys" /\ e.tgt # -1
               \/ k = 4
               \/ e.cmd = "move-window" /\ e.rc # 0
               \/ FirstOfKind(s)
            /\ k \in {4, 5, 6} =>
                  \E r \in Resolves :
                      /\ r < s
                      /\ log[r].rc = 0
                      /\ e.age = r
                      /\ e.wid = log[r].wid
                      /\ k = 5 => e.tgt = IndexOf(window_target)
                      /\ \E n \in At("rename-window") :
                            n < r /\ \E c \in At("send-keys") : log[c].tgt = -1 /\ c < n
            /\ e.cmd = "move-window" => At("split-window") # {} /\ At("select-pane") # {}

C16_Witness ==
    /\ scenario = Inside3 /\ pc = "done" /\ moved # None
    /\ \A i \in 1..Len(log) : log[i].rc = 0
    /\ At("kill-pane") # {}
    /\ windows[IndexOf(moved)].name = BaseName(project_key)
    /\ windows[IndexOf(moved)].panes = 2

\* C17: the target create_project_window or setup_current_window_as_project
\* hands back names, at that moment, the index the project window sits at
C17_ReturnedTargetLive ==
    [][/\ (project_target = None /\ project_target' # None) =>
             (/\ IndexOf(project_target') \in DOMAIN windows'
              /\ windows'[IndexOf(project_target')].id = projectId')
       /\ (s3_target = None /\ s3_target' # None) =>
             (/\ IndexOf(s3_target') \in DOMAIN windows'
              /\ windows'[IndexOf(s3_target')].id = projectId')]_vars

\* the part of C17 about create_project_window alone
C17_CreatedTargetLive ==
    [][(project_target = None /\ project_target' # None) =>
             (/\ IndexOf(project_target') \in DOMAIN windows'
              /\ windows'[IndexOf(project_target')].id = projectId')]_vars

\* C18: a window _create_window_safe has created (insert_left false) sits at an
\* index greater than that of every window the session held before the call
C18_AppendedAfterLast ==
    (pc \in {"cws_verify", "mv_try"} /\ projectId # 0) =>
        /\ IdAt(target_index) = projectId
        /\ \A i \in Indices \ {target_index} : i < target_index

\* C19: a new-window of _create_window_safe that failed on an index in use is
\* followed by a creation attempt at another index
C19_CollisionRetried ==
    \A i \in ProjectCreations :
        (log[i].rc # 0 /\ log[i].tgt \in Indices) =>
            \E j \in ProjectCreations : j > i /\ log[j].tgt # log[i].tgt

\* the two instances: the scheduled one and the other
Instances == {Locals, peer}

\* the commands of a log that built a layout in, or attached to, a live window
Built(l) ==
    {i \in 1..Len(l) : /\ l[i].cmd \in {"split-window", "send-keys", "select-pane", "attach-session"}
                       /\ l[i].wid # 0}

\* the new-window commands of _create_window_safe in a log
Creations(l) == {i \in 1..Len(l) : l[i].cmd = "new-window" /\ l[i].tgt # -1}

\* the windows a log's own new-window commands created
Own(l) == {l[i].wid : i \in {j \in Creations(l) : l[j].rc = 0}}

\* C20: of two instances started outside tmux against the same session, in
\* every interleaving of their commands, each splits, types into, selects and
\* attaches only windows that its own new-window created; an instance whose
\* new-window failed ends there, with no target and no layout built
C20_OwnWindowOnly ==
    \A s \in Instances :
        /\ \A i \in Built(s.log) : s.log[i].wid \in Own(s.log)
        /\ \A j \in Creations(s.log) :
              s.log[j].rc # 0 =>
                  /\ j = Len(s.log) /\ s.pc = "done"
                  /\ s.window_target = None /\ s.project_target = None
                  /\ Built(s.log) = {}

\* the steps whose failure ends the procedure: new-session, the project
\* window's new-window, list-panes, split-window
HardStep(e) ==
    \/ e.cmd \in {"new-session", "list-panes", "split-window"}
    \/ e.cmd = "new-window" /\ e.tgt # -1

C22_AllThroughGateway ==
    \A i \in 1..Len(log) :
        /\ log[i].via = "gateway"
        /\ log[i].rc # 0 => log[i].logged

\* the command issued last went through the gateway
LastByGateway == log # <<>> /\ log[Len(log)].via = "gateway"

\* the gateway's decision on the command issued last
C23_LoggedWhenDue ==
    LastByGateway =>
        LET e == log[Len(log)]
        IN  /\ e.rc # 0 => e.logged
            /\ e.rc = 0 => (e.logged <=> e.log_success)

\* C23: a command run through _run_tmux_command is logged when its exit code is
\* not 0, whatever log_success; with exit code 0 it is logged exactly when
\* log_success is set; one call of the gateway issues one command
C23_GatewayLogging ==
    /\ []C23_LoggedWhenDue
    /\ [][(log' # log /\ log' # <<>>) =>
            /\ Len(log') = Len(log) + 1
            /\ SubSeq(log', 1, Len(log)) = log]_vars

\* a failed command that was run with log_success = False, and logged
C23_Witness ==
    /\ LastByGateway
    /\ log[Len(log)].rc # 0 /\ ~log[Len(log)].log_success /\ log[Len(log)].logged
    /\ \E i \in 1..Len(log) : log[i].via = "gateway" /\ log[i].rc = 0 /\ ~log[i].logged
    /\ \E i \in 1..Len(log) : log[i].via = "gateway" /\ log[i].rc = 0 /\ log[i].logged

\* C24: setup_standard_project_layout splits the target window once; a failed
\* split ends it with nothing typed and no pane selected; after a split that
\* succeeded it types the task-file command into pane 0, then the assistant
\* command into pane 1, then selects pane 1 and hands control back to its
\* caller. Stated of the command issued last, in every state
C24_LayoutSequence ==
    log # <<>> =>
        LET s == Len(log)
            e == log[s]
            prev == log[s - 1]
        IN  /\ e.cmd = "split-window" =>
                  /\ \A i \in 1..(s - 1) : log[i].cmd # "split-window"
                  /\ e.tgt = IndexOf(window_target)
                  /\ pc = IF e.rc = 0 THEN "lay_task" ELSE "done"
                  /\ e.rc # 0 => project_target = None /\ s3_target = None
            /\ (e.cmd = "send-keys" /\ e.tgt # -1 /\ e.keys = EditorKeys) =>
                  /\ e.pane = 0
                  /\ prev.cmd = "split-window" /\ prev.rc = 0 /\ prev.tgt = e.tgt
                  /\ pc = "lay_claude"
            /\ (e.cmd = "send-keys" /\ e.tgt # -1 /\ e.keys # EditorKeys) =>
                  /\ e.pane = 1 /\ e.keys = ClaudeKeys
                  /\ prev.cmd = "send-keys" /\ prev.keys = EditorKeys /\ prev.tgt = e.tgt
                  /\ pc = "lay_select"
            /\ e.cmd = "select-pane" =>
                  /\ e.pane = 1
                  /\ prev.cmd = "send-keys" /\ prev.keys = ClaudeKeys /\ prev.tgt = e.tgt
                  /\ pc \in {"mvr_try", "s1_kill_window", "attach"}
                  /\ scenario # Inside3 => project_target = Target(e.tgt)

\* the layout was built without a failure: the window holds two panes
C24_Witness ==
    /\ log # <<>> /\ log[Len(log)].cmd = "select-pane" /\ log[Len(log)].rc = 0
    /\ \A i \in 1..Len(log) : log[i].rc = 0
    /\ window_target # None /\ IndexOf(window_target) \in Indices
    /\ windows[IndexOf(window_target)].panes = 2

(***************************************************************************)
(* The run with --project <key> next to the interactive run.  Both start   *)
(* from the same tmux state, each in a world of its own; the variables     *)
(* hold the world that takes the next step, twin.w the other one.          *)
(***************************************************************************)
World == [tmux |-> tmuxVars, env |-> <<faults, runs, foreign>>, own |-> Locals]

Load(w) ==
    /\ sessionExists' = w.tmux[1] /\ windows' = w.tmux[2] /\ cur' = w.tmux[3]
    /\ nextId' = w.tmux[4] /\ renumber' = w.tmux[5]
    /\ faults' = w.env[1] /\ runs' = w.env[2] /\ foreign' = w.env[3]
    /\ pc' = w.own.pc /\ inside' = w.own.inside /\ scenario' = w.own.scenario
    /\ project_key' = w.own.project_key /\ validated' = w.own.validated
    /\ preset' = w.own.preset /\ select_calls' = w.own.select_calls
    /\ window_name' = w.own.window_name /\ target_index' = w.own.target_index
    /\ verified_name' = w.own.verified_name /\ cws_target' = w.own.cws_target
    /\ window_target' = w.own.window_target /\ project_target' = w.own.project_target
    /\ s3_target' = w.own.s3_target /\ cand' = w.own.cand /\ moved' = w.own.moved
    /\ attempt' = w.own.attempt /\ slept' = w.own.slept /\ ready' = w.own.ready
    /\ pane_indices' = w.own.pane_indices /\ projectId' = w.own.projectId
    /\ tgtAge' = w.own.tgtAge /\ log' = w.own.log

\* the commands of a log that change the session, in order
Mutations(l) == SelectSeq(l, LAMBDA e : e.cmd \in Mutating)

\* a world has left the selection: a procedure runs with a key, or the run is over
Settled(w) == w.own.pc \notin {"idle", "select"}

\* what a run holds apart from the way its key was obtained
Procedure(l) == [l EXCEPT !.preset = None, !.select_calls = 0]

\* two worlds agree: the same session, the same position and, unless both
\* runs ended without changing the session, the same scenario, key, targets
\* and commands
Same(a, b) ==
    /\ a.tmux = b.tmux
    /\ a.own.pc = b.own.pc
    /\ \/ /\ a.own.pc = "done"
          /\ Mutations(a.own.log) = <<>> /\ Mutations(b.own.log) = <<>>
       \/ /\ a.env = b.env
          /\ Procedure(a.own) = Procedure(b.own)

\* what detect_scenario found, and the probe it issued
Detected(w) == <<w.own.inside, w.own.scenario, w.own.log, w.tmux[3], w.env[1]>>

InitPreset ==
    /\ sessionExists \in BOOLEAN
    /\ windows = IF sessionExists THEN WithWindow(<<>>, 0, [id |-> 1, name |-> PLACEHOLDER, panes |-> 1])
                 ELSE <<>>
    /\ cur = IF sessionExists THEN 0 ELSE -1
    /\ nextId = IF sessionExists THEN 2 ELSE 1
    /\ renumber \in BOOLEAN
    /\ NoLocals
    /\ faults = 0 /\ runs = 0 /\ peer = None
    /\ twin = [w |-> World, active |-> FALSE]
    /\ args = None /\ ret = None

\* the run with --project takes a step when the interactive run has caught up
PresetStep ==
    /\ ~twin.active
    /\ Settled(World) => Same(World, twin.w)
    /\ \/ MainPreset
       \/ SelectProject
       \/ handle_scenario_1
       \/ handle_scenario_2
       \/ handle_scenario_3

SwapIn ==
    /\ ~twin.active
    /\ Settled(World) /\ ~Same(World, twin.w)
    /\ twin' = [w |-> World, active |-> TRUE]
    /\ Load(twin.w)
    /\ UNCHANGED <<fnVars, peer>>

\* the interactive run takes a step that meets the same tmux outcomes as the
\* run with --project met
TwinStep ==
    /\ twin.active
    /\ ~Same(World, twin.w)
    /\ \/ Detect
       \/ SelectProject
       \/ handle_scenario_1
       \/ handle_scenario_2
       \/ handle_scenario_3
    /\ IF Settled(World)' THEN Same(World, twin.w)'
       ELSE twin.w.own.scenario # "" => Detected(World)' = Detected(twin.w)

SwapOut ==
    /\ twin.active
    /\ Same(World, twin.w)
    /\ twin' = [w |-> World, active |-> FALSE]
    /\ Load(twin.w)
    /\ UNCHANGED <<fnVars, peer>>

NextPreset ==
    \/ PresetStep
    \/ SwapIn
    \/ TwinStep
    \/ SwapOut

SpecPreset == InitPreset /\ [][NextPreset]_vars

\* the world of the run that was given --project
PresetWorld == IF twin.active THEN twin.w ELSE World

\* C25: with a key given up front select_project is never called, and whatever
\* the run does, the interactive run whose selection returns that key can do
\* from the same tmux state: it runs the same procedure and issues the same
\* commands with the same targets, step for step
C25_PresetSameProcedure ==
    /\ PresetWorld.own.preset # None => PresetWorld.own.select_calls = 0
    /\ (twin.active /\ ~Same(World, twin.w)) => ENABLED TwinStep

\* the run with --project built and attached its project window, the
\* interactive run did the same after one call of select_project
C25_Witness ==
    /\ ~twin.active /\ pc = "done" /\ preset # None /\ select_calls = 0
    /\ Same(World, twin.w)
    /\ twin.w.own.select_calls = 1 /\ twin.w.own.preset = None
    /\ \E i \in At("attach-session") : log[i].rc = 0
    /\ Mutations(twin.w.own.log) = Mutations(log) /\ Mutations(log) # <<>>


(***************************************************************************)
(* One invocation, from a session the user and earlier runs have left      *)
(***************************************************************************)
\* no session, or the user's window (which they may have split) and the
\* windows earlier runs parked at the first free candidate indices
InitLive ==
    /\ sessionExists \in BOOLEAN
    /\ \E n \in 0..Len(Candidates), p \in 1..MaxPanes :
          LET parked == {Candidates[i] : i \in 1..n}
              occupied == {0} \cup parked
          IN  /\ ~sessionExists => (parked = {} /\ p = 1)
              /\ windows = IF sessionExists
                           THEN [i \in occupied |->
                                   [id |-> Cardinality({j \in occupied : j < i}) + 1,
                                    name |-> PLACEHOLDER,
                                    panes |-> IF i = 0 THEN p ELSE 1]]
                           ELSE <<>>
              /\ nextId = IF sessionExists THEN Cardinality(occupied) + 1 ELSE 1
    /\ cur = IF sessionExists THEN 0 ELSE -1
    /\ renumber \in BOOLEAN
    /\ NoLocals
    /\ faults = 0 /\ runs = 0 /\ peer = None /\ twin = None
    /\ args = None /\ ret = None

\* the statements of a scenario procedure, once the process has started
RunStep ==
    \/ SelectProject
    \/ handle_scenario_1
    \/ handle_scenario_2
    \/ handle_scenario_3

NextLive ==
    \/ Detect
    \/ RunStep

\* the procedures are sequential code and every tmux command returns: the
\* statement after it runs
SpecLive == InitLive /\ [][NextLive]_vars /\ WF_vars(RunStep)

\* the commands of the longest procedure outside its loops, and one for every
\* move attempt, readiness probe and pane
CommandBound == 17 + Len(Candidates) + MaxRetries + MaxPanes

C26_Bounded ==
    /\ Cardinality(At("move-window")) <= 5
    /\ Cardinality(Probes) <= MaxRetries
    /\ Cardinality(At("kill-pane")) < MaxPanes
    /\ Len(log) <= CommandBound

\* C26: a scenario procedure that has started ends (completed or aborted),
\* every command having returned, after a bounded number of commands: at most
\* 5 move-window attempts, at most max_retries readiness probes and one
\* kill-pane for each pane listed
C26_Terminates == []C26_Bounded /\ ((pc # "idle") ~> (pc = "done"))

C26_Witness ==
    /\ pc = "done"
    /\ Cardinality(At("move-window")) = 5
    /\ Cardinality(Probes) = MaxRetries
    /\ Cardinality(At("kill-pane")) = MaxPanes - 1

\* new-window -t <index>, the project window (the ccusage and log windows are
\* made with new-window -a)
ProjectNewWindow == {i \in At("new-window") : log[i].tgt # -1}

\* the commands a run issues once at most
OnceEach ==
    /\ \A c \in {"new-session", "split-window", "rename-window", "kill-window"} :
          Cardinality(At(c)) <= 1
    /\ Cardinality(ProjectNewWindow) <= 1

\* two commands of the run are the same command: the same tmux command with
\* the same keys or format (the ccusage, log and project windows are three
\* different commands)
Repeats(i, j) ==
    /\ i < j
    /\ log[i].cmd = log[j].cmd /\ log[i].keys = log[j].keys
    /\ log[i].cmd = "new-window" => (i \in ProjectNewWindow /\ j \in ProjectNewWindow)

C28_SinglePaneAfterClear ==
    pc = "rename" =>
       /\ windows[cur].panes = 1
       /\ \A i \in At("kill-pane") : log[i].pane # 0

\* C29: when list-panes fails in the in-place transform,
\* setup_current_window_as_project returns None (the exception of
\* clear_current_window is caught), the procedure ends, and no rename-window,
\* split-window, send-keys or move-window follows
C29_ListPanesFailureContained ==
    \A i \in At("list-panes") :
       log[i].rc # 0 =>
          /\ pc = "done"
          /\ s3_target = None
          /\ \A j \in (i + 1)..Len(log) :
                log[j].cmd \notin {"rename-window", "split-window", "send-keys", "move-window"}

C29_Witness ==
    /\ scenario = "inside_tmux"
    /\ pc = "done"
    /\ log # <<>>
    /\ log[Len(log)].cmd = "list-panes" /\ log[Len(log)].rc # 0
    /\ s3_target = None

\* C30: outside tmux, attach-session is issued once at most, after
\* create_project_window returned a target (the window created, answering the
\* readiness probe and split), it names the project window, and it is the
\* last command of the run
C30_AttachLastOnProject ==
    scenario \in {Outside1, "outside_tmux_has_session"} =>
       \A i \in At("attach-session") :
          /\ At("attach-session") = {i}
          /\ i = Len(log)
          /\ project_target # None
          /\ \E n \in ProjectNewWindow : n < i /\ log[n].rc = 0
          /\ \E p \in Probes : p < i /\ log[p].rc = 0
          /\ \E s \in At("split-window") : s < i /\ log[s].rc = 0
          /\ log[i].tgt = IndexOf(project_target)
          /\ log[i].wid = projectId

\* the commands create_project_window issues on its window after the move:
\* the readiness probes, the split and what is typed and selected in the panes
AfterMove(i) ==
    \/ i \in Probes
    \/ log[i].cmd \in {"split-window", "select-pane"}
    \/ log[i].cmd = "send-keys" /\ log[i].tgt # -1

\* C31: in create_project_window the readiness probes, the split and the pane
\* startup commands name the index the window was moved to when the move
\* succeeded (never the index it was created at), and the index it was created
\* at when the move failed
C31_PostMoveTarget ==
    (scenario # "inside_tmux" /\ cws_target # None) =>
       \A i \in 1..Len(log) :
          AfterMove(i) =>
             IF \E m \in At("move-window") : log[m].rc = 0
             THEN /\ \E m \in At("move-window") : log[m].rc = 0 /\ m < i /\ log[i].tgt = log[m].tgt
                  /\ log[i].tgt # IndexOf(cws_target)
             ELSE /\ At("move-window") # {}
                  /\ log[i].tgt = IndexOf(cws_target)

\* a run whose move succeeded went on to the last pane command
C31_Witness ==
    /\ scenario # "inside_tmux" /\ cws_target # None
    /\ \E m \in At("move-window") : log[m].rc = 0 /\ log[m].tgt # IndexOf(cws_target)
    /\ log[Len(log)].cmd = "select-pane" /\ log[Len(log)].rc = 0

\* C32: _find_next_available_index returns the smallest index from start on
\* that no window of the session sits at, and start itself when list-windows
\* failed or listed nothing
C32_SmallestFreeIndex ==
    (args.fn = "_find_next_available_index" /\ ret # None) =>
        LET r == ret[1]
            taken == IF args.returncode = 0 THEN args.indices ELSE {}
        IN  /\ r >= args.start_index
            /\ r \notin taken
            /\ \A i \in args.start_index..(r - 1) : i \in taken
            /\ (args.returncode # 0 \/ args.indices = {}) => r = args.start_index

\* the scan went past three windows in a row
C32_Witness ==
    /\ args.fn = "_find_next_available_index" /\ ret # None
    /\ args.returncode = 0 /\ args.start_index = 1001
    /\ {1001, 1002, 1003} \subseteq args.indices
    /\ ret[1] = 1004

\* the has-session probes of the creation functions: all but the one of
\* detect_scenario, which opens the log of a run started outside tmux
CreationProbes == {i \in At("has-session") : i > 1}

\* C33: a has-session probe that exits non-zero makes the creation function
\* that issued it return None: no new-window follows it, the run goes on to the
\* probe of the next creation function or ends, and a run that ends there has
\* no window target
C33_AbsentSessionNoWindow ==
    \A i \in CreationProbes :
       log[i].rc # 0 =>
          /\ i < Len(log) => log[i + 1].cmd = "has-session"
          /\ i = Len(log) =>
                /\ pc \in {"log_has_session", "cpw_has_session", "done"}
                /\ pc = "done" => (cws_target = None /\ window_target = None /\ project_target = None)

\* the probe of _create_window_safe failed after the one of create_project_window passed
C33_Witness ==
    /\ pc = "done" /\ Len(log) > 2
    /\ log[Len(log)].cmd = "has-session" /\ log[Len(log)].rc # 0
    /\ log[Len(log) - 1].cmd = "has-session" /\ log[Len(log) - 1].rc = 0
    /\ At("new-window") = {}
    /\ project_target = None

\* C34: when _create_window_safe has returned None, the session holds the
\* windows it held before the call: a window that new-window created and the
\* verification rejected is not left in it
C34_NoWindowLeftBehind ==
    (pc = "done" /\ window_target = None) =>
       \A n \in ProjectNewWindow :
          log[n].rc = 0 => IndexOfId(log[n].wid) = -1

\* C35: when the rightmost move reports success, the window it moved has the
\* highest index of its session
C35_MovedIsRightmost ==
    (log # <<>> /\ log[Len(log)].cmd = "move-window" /\ log[Len(log)].rc = 0) =>
       \A i \in Indices : i <= log[Len(log)].tgt

\* C36: when setup_current_window_as_project has returned a target for the
\* key k, the current window is named cc-mngr-k and
\* extract_project_from_window gives k back from that name
C36_TransformedWindowNamed ==
    s3_target # None =>
       /\ windows[cur].name = BaseName(project_key)
       /\ extract_project_from_window(get_current_window_name(windows[cur].name)) = project_key

\* the windows the run created: the ids the successful new-session and
\* new-window commands gave out
CreatedIds == {log[i].wid : i \in {j \in At("new-session") \cup At("new-window") : log[j].rc = 0}}

\* C37: when scenario 1 has created the session and create_project_window then
\* failed, the run has ended with no kill-window and no attach-session, and the
\* session still holds the placeholder and every window the run created
C37_FailureLeavesSession ==
    (scenario = Outside1 /\ pc = "done" /\ project_target = None
       /\ \E i \in At("new-session") : log[i].rc = 0) =>
       /\ At("kill-window") = {} /\ At("attach-session") = {}
       /\ sessionExists
       /\ \A id \in CreatedIds : IndexOfId(id) # -1

\* the project window was created and the layout failed at the split
C37_Witness ==
    /\ scenario = Outside1 /\ pc = "done" /\ project_target = None
    /\ \E i \in At("new-session") : log[i].rc = 0
    /\ log[Len(log)].cmd = "split-window" /\ log[Len(log)].rc # 0
    /\ Cardinality(CreatedIds) = 4 /\ Cardinality(Indices) = 4

\* C38: the inside_tmux procedure issues no new-session, new-window,
\* kill-window or attach-session; a step of it leaves every other window as it
\* was, at its index, and the session keeps the same windows: only the current
\* window's name, index and panes change
C38_InPlaceOnly ==
    /\ [](scenario = Inside3 =>
             \A i \in 1..Len(log) :
                log[i].cmd \notin {"new-session", "new-window", "kill-window", "attach-session"})
    /\ [][(scenario = Inside3 /\ scenario' = Inside3) =>
             /\ sessionExists' = sessionExists
             /\ {windows'[i].id : i \in DOMAIN windows'} = {windows[i].id : i \in Indices}
             /\ \A i \in Indices :
                   windows[i].id # IdAt(cur) =>
                      (i \in DOMAIN windows' /\ windows'[i] = windows[i])
             /\ IdAt(cur)' = IdAt(cur)]_vars

\* the transform ran to its end: the current window was renamed, split and moved
C38_Witness ==
    /\ scenario = Inside3 /\ pc = "done" /\ s3_target # None
    /\ Cardinality(Indices) > 1
    /\ \E i \in At("move-window") : log[i].rc = 0
    /\ windows[cur].panes = 2 /\ windows[cur].name = BaseName(project_key)

\* C39: the name get_unique_window_name returns for a key of [a-zA-Z0-9_]+,
\* whatever windows exist, is a claude-manager name from which
\* extract_project_from_window gives the key back; ccusage and mngr-log are not
\* claude-manager names
C39_NameRoundTrip ==
    /\ (args.fn = "get_unique_window_name" /\ ret # None) =>
          /\ is_claude_manager_window(ret[1])
          /\ extract_project_from_window(ret[1]) = args.project_key
    /\ (args.fn = "extract_project_from_window" /\ ret # None
          /\ args.window_name \in {CCUSAGE, MNGRLOG}) =>
          /\ ~is_claude_manager_window(args.window_name)
          /\ ret[1] = None

\* the name came back with a counter after two names were found taken
C39_Witness ==
    /\ args.fn = "get_unique_window_name" /\ ret # None
    /\ args.project_key = MixedKey /\ args.returncode = 0
    /\ ret[1] = Suffixed(BaseName(MixedKey), 2)
    /\ extract_project_from_window(ret[1]) = MixedKey

(***************************************************************************)
(* The three-pane layout of the archived manager                           *)
(* (.archive/claude_manager_old.py, setup_window_layout)                   *)
(***************************************************************************)
\* settings["pane_heights"]["bottom"]: the default and one a user configured
PaneHeights == {20, 35}

\* str(self.settings["pane_heights"]["bottom"])
PercentText(n) == IF n = 20 THEN "20" ELSE IF n = 35 THEN "35" ELSE "other"

\* the window indices the session of the archived manager holds
LayoutIndices == {0, 1, 2, 3}

\* <editor> <notes_path>, Enter
NotesKeys == <<"editor notes_file", "Enter">>

\* settings["ccusage_command"], Enter
MonitorKeys == <<"ccusage_command", "Enter">>

\* (the second split aimed at the window, that is at its active pane)
Old_SplitBottom_Active ==
    /\ pc = "old_split_v"
    /\ \E ok \in Oks :
          LET idx == IndexOf(window_target)
              done == ok /\ idx \in Indices /\ windows[idx].panes < MaxPanes
          IN  /\ Issued(Entry("split-window", idx, -1, <<"-v", "-p", PercentText(args.bottom)>>,
                              Rc(done), tgtAge, IdAt(idx)), ok)
              /\ IF done
                 THEN /\ windows' = [windows EXCEPT ![idx].panes = @ + 1]
                      /\ pc' = "old_notes"
                 ELSE /\ pc' = "done"
                      /\ UNCHANGED windows
    /\ UNCHANGED <<sessionExists, cur, nextId, renumber, inside, scenario, preset,
                   select_calls, project_key, validated, window_name,
                   target_index, verified_name, cws_target, window_target,
                   project_target, s3_target, cand, moved, attempt, slept,
                   ready, pane_indices, projectId, tgtAge, foreign, runs,
                   peer, twin, args, ret>>

\* split-window -h -t <window_target> -c <directory>; a non-zero exit prints
\* the error and returns
Old_SplitRight ==
    /\ pc = "old_split_h"
    /\ \E ok \in Oks :
          LET idx == IndexOf(window_target)
              done == ok /\ idx \in Indices /\ windows[idx].panes < MaxPanes
          IN  /\ Issued(Entry("split-window", idx, -1, <<"-h">>, Rc(done), tgtAge, IdAt(idx)), ok)
              /\ IF done
                 THEN /\ windows' = [windows EXCEPT ![idx].panes = @ + 1]
                      /\ pc' = "old_split_v"
                 ELSE /\ pc' = "done"
                      /\ UNCHANGED windows
    /\ UNCHANGED <<sessionExists, cur, nextId, renumber, inside, scenario, preset,
                   select_calls, project_key, validated, window_name,
                   target_index, verified_name, cws_target, window_target,
                   project_target, s3_target, cand, moved, attempt, slept,
                   ready, pane_indices, projectId, tgtAge, foreign, runs,
                   peer, twin, args, ret>>

\* split-window -v -t <window_target>.0 -p <bottom> -c <directory>; a non-zero
\* exit prints the error and returns
Old_SplitBottom ==
    /\ pc = "old_split_v"
    /\ \E ok \in Oks :
          LET idx == IndexOf(window_target)
              done == ok /\ idx \in Indices /\ windows[idx].panes < MaxPanes
          IN  /\ Issued(Entry("split-window", idx, 0, <<"-v", "-p", PercentText(args.bottom)>>,
                              Rc(done), tgtAge, IdAt(idx)), ok)
              /\ IF done
                 THEN /\ windows' = [windows EXCEPT ![idx].panes = @ + 1]
                      /\ pc' = "old_notes"
                 ELSE /\ pc' = "done"
                      /\ UNCHANGED windows
    /\ UNCHANGED <<sessionExists, cur, nextId, renumber, inside, scenario, preset,
                   select_calls, project_key, validated, window_name,
                   target_index, verified_name, cws_target, window_target,
                   project_target, s3_target, cand, moved, attempt, slept,
                   ready, pane_indices, projectId, tgtAge, foreign, runs,
                   peer, twin, args, ret>>

\* send-keys -t <window_target>.<pane_id> <command> Enter; the exit code is
\* not read
Old_SendKeys(at, pane, keys, next) ==
    /\ pc = at
    /\ \E ok \in Oks :
          LET idx == IndexOf(window_target)
              done == ok /\ idx \in Indices /\ pane < windows[idx].panes
          IN  Issued(Entry("send-keys", idx, pane, keys, Rc(done), tgtAge, IdAt(idx)), ok)
    /\ pc' = next
    /\ UNCHANGED <<sessionExists, windows, cur, nextId, renumber, inside, scenario,
                   preset, select_calls, project_key, validated, window_name,
                   target_index, verified_name, cws_target, window_target,
                   project_target, s3_target, cand, moved, attempt, slept,
                   ready, pane_indices, projectId, tgtAge, foreign, runs,
                   peer, twin, args, ret>>

setup_notes_pane == Old_SendKeys("old_notes", 0, NotesKeys, "old_monitor")

setup_monitoring_pane == Old_SendKeys("old_monitor", 1, MonitorKeys, "old_claude")

setup_claude_pane == Old_SendKeys("old_claude", 2, ClaudeKeys, "done")

setup_window_layout ==
    \/ Old_SplitRight
    \/ Old_SplitBottom
    \/ setup_notes_pane
    \/ setup_monitoring_pane
    \/ setup_claude_pane

\* setup_tmux_session has just created the project's window (one pane, the
\* active one) next to the windows the session already holds and calls
\* setup_window_layout on it
InitOld ==
    /\ \E occupied \in SUBSET LayoutIndices, idx \in LayoutIndices, k \in Keys,
          bottom \in PaneHeights :
          /\ idx \in occupied
          /\ windows = [i \in occupied |->
                          [id |-> Cardinality({j \in occupied : j < i}) + 1,
                           name |-> IF i = idx THEN BaseName(k) ELSE PLACEHOLDER,
                           panes |-> 1]]
          /\ nextId = Cardinality(occupied) + 1
          /\ cur = CHOOSE i \in occupied : \A j \in occupied : i <= j
          /\ project_key = k
          /\ window_name = BaseName(k)
          /\ window_target = Target(idx)
          /\ projectId = Cardinality({j \in occupied : j < idx}) + 1
          /\ args = [fn |-> "setup_window_layout", window_target |-> Target(idx),
                     bottom |-> bottom]
    /\ pc = "old_split_h"
    /\ sessionExists = TRUE
    /\ renumber = FALSE
    /\ inside = FALSE /\ scenario = "outside_tmux_has_session"
    /\ target_index = -1 /\ verified_name = None /\ cws_target = None
    /\ project_target = None /\ s3_target = None /\ cand = 0 /\ moved = None
    /\ attempt = 0 /\ slept = <<>> /\ ready = "" /\ validated = "True"
    /\ pane_indices = <<>> /\ tgtAge = 0 /\ log = <<>>
    /\ foreign = 0 /\ faults = 0 /\ runs = 1 /\ peer = None /\ twin = None
    /\ preset = None /\ select_calls = 1
    /\ ret = None

NextOld == setup_window_layout

SpecOld == InitOld /\ [][NextOld]_vars

\* tmux split-window: the pane aimed at (the active one when the target names
\* the window) keeps the left or top part, the new pane takes the right or
\* bottom part, is numbered right after it and becomes the active pane
SplitAt(layout, at, flag) ==
    LET first  == IF flag = "-h" THEN "left" ELSE "top"
        second == IF flag = "-h" THEN "right" ELSE "bottom"
    IN  SubSeq(layout, 1, at) \o <<Append(layout[at + 1], first)>>
          \o <<Append(layout[at + 1], second)>> \o SubSeq(layout, at + 2, Len(layout))

\* the panes of the project's window, by pane index, after the splits of the
\* command list that succeeded
RECURSIVE PanesAfter(_, _, _)
PanesAfter(entries, layout, active) ==
    IF entries = <<>> THEN layout
    ELSE LET e  == Head(entries)
             at == IF e.pane = -1 THEN active ELSE e.pane
         IN  IF e.cmd = "split-window" /\ e.rc = 0 /\ at < Len(layout)
             THEN PanesAfter(Tail(entries), SplitAt(layout, at, e.keys[1]), at + 1)
             ELSE PanesAfter(Tail(entries), layout, active)

OldPanes == PanesAfter(log, <<<<>>>>, 0)

Splits == {i \in 1..Len(log) : log[i].cmd = "split-window"}

Startups == {i \in 1..Len(log) : log[i].cmd = "send-keys"}

\* C40: the layout builder issues the left/right split of the window first
\* and the top/bottom split of pane 0 with the configured bottom percentage
\* second; when a split exits non-zero it is the last command of the builder,
\* no startup command is sent and the window keeps the panes the splits so far
\* made; when both succeed the panes are 0 top-left, 1 bottom-left and 2 right
\* and the startups go to panes 0, 1 and 2 in that order.
C40_ThreePaneLayout ==
    LET idx == IndexOf(window_target)
        ok  == {i \in Splits : log[i].rc = 0}
    IN  /\ Splits \subseteq {1, 2}
        /\ 1 \in Splits => log[1].pane = -1 /\ log[1].keys = <<"-h">>
        /\ 2 \in Splits => /\ log[1].rc = 0
                           /\ log[2].pane = 0
                           /\ log[2].keys = <<"-v", "-p", PercentText(args.bottom)>>
        /\ \A i \in 1..Len(log) : log[i].cmd \in {"split-window", "send-keys"}
        /\ windows[idx].panes = 1 + Cardinality(ok)
        /\ \A i \in Splits : log[i].rc # 0 => i = Len(log) /\ pc = "done" /\ Startups = {}
        /\ Startups # {} =>
              /\ ok = {1, 2}
              /\ OldPanes = <<<<"left", "top">>, <<"left", "bottom">>, <<"right">>>>
              /\ Startups \subseteq 3..5
              /\ 3 \in Startups => log[3].pane = 0 /\ log[3].keys = NotesKeys
              /\ 4 \in Startups => log[4].pane = 1 /\ log[4].keys = MonitorKeys
              /\ 5 \in Startups => log[5].pane = 2 /\ log[5].keys = ClaudeKeys
        /\ (pc = "done" /\ ok = {1, 2}) => Startups = 3..5

\* the builder ran to its end on a window with other windows around it
C40_Witness ==
    /\ pc = "done" /\ Len(log) = 5
    /\ OldPanes = <<<<"left", "top">>, <<"left", "bottom">>, <<"right">>>>
    /\ args.bottom = 35

\* the second split failed: the first one stays and nothing is typed
C40_WitnessFailed ==
    /\ pc = "done" /\ Len(log) = 2 /\ log[2].rc # 0
    /\ windows[IndexOf(window_target)].panes = 2

====
